---------------------------- MODULE Spec2Model ----------------------------
(***************************************************************************)
(* Model of the streaming relay of ChatService.handleStreamChatRequest     *)
(* (src/src/entities/chat/model/types.ts): one streaming request, from the *)
(* admission checks to the terminal event, with the idle-timeout timers,   *)
(* the upstream stream's events, the persistence calls made at             *)
(* end-of-stream and the shared hourly cost window; and of                 *)
(* ChatService.prepareAIRequest with its three content builders, applied   *)
(* to a range of configurations and payloads.                              *)
(*                                                                         *)
(* Money is counted in micro-dollars (1e-6 $), per-token prices in 1e-7 $. *)
(* Model ids, urls of data and file blocks are sequences of tokens, so     *)
(* that a prefix test and a string template are computed, not looked up.   *)
(***************************************************************************)
EXTENDS Integers, Sequences, FiniteSets, TLC

(***************************************************************************)
(* Bounds of the model.                                                    *)
(***************************************************************************)
\* upstream 'data' events per request
MaxChunks == 2

\* the latest time of a fetchOpenRouterPricing call, in refresh intervals
MaxNow == 1

\* LIMITS.PRICING_CACHE_DURATION: the refresh interval is the unit of time
PRICING_CACHE_DURATION == 1

NULL == "null"

(***************************************************************************)
(* Program constants.                                                      *)
(***************************************************************************)
\* const estimatedCost = 0.01, in micro-dollars
EstimatedCost == 10000
\* ceiling of the hourly cost window ($50 in the specification's Cost
\* Governor), in micro-dollars
HourlyCostCeiling == 50000000
\* title = lastUserMessage.substring(0, 50)
TitleMaxLen == 50

(***************************************************************************)
(* Inputs.                                                                 *)
(***************************************************************************)
\* rows of model_routing_config when the service starts, and after an
\* administrator moved "claude" to another aggregator model and "mistral"
\* off the aggregator; "opus" is flagged without an aggregator model id
RoutingRows ==
    << [model_id |-> <<"claude">>, use_openrouter |-> TRUE,
        openrouter_model_id |-> <<"anthropic", "/", "claude">>],
       [model_id |-> <<"mistral">>, use_openrouter |-> TRUE,
        openrouter_model_id |-> <<"mistralai", "/", "mistral">>],
       [model_id |-> <<"anthropic", "/", "opus">>, use_openrouter |-> TRUE,
        openrouter_model_id |-> <<>>] >>

RefreshedRoutingRows ==
    [RoutingRows EXCEPT ![1].openrouter_model_id = <<"anthropic", "/", "claude", "-2">>,
                        ![2].use_openrouter = FALSE]

\* the models of the aggregator's price list (prices per token, 1e-7 $) when
\* the service starts and later; "mistralai/mistral" comes without pricing
PricingModels ==
    << [id |-> <<"anthropic", "/", "claude">>, hasPricing |-> TRUE,
        prompt |-> 30, completion |-> 150],
       [id |-> <<"anthropic", "/", "claude", "-2">>, hasPricing |-> TRUE,
        prompt |-> 60, completion |-> 300],
       [id |-> <<"anthropic", "/", "opus">>, hasPricing |-> TRUE,
        prompt |-> 150, completion |-> 750],
       [id |-> <<"mistralai", "/", "mistral">>, hasPricing |-> FALSE,
        prompt |-> 0, completion |-> 0] >>

RefreshedPricingModels ==
    [PricingModels EXCEPT ![1].prompt = 40, ![1].completion = 200]

\* loadModelRoutingConfig: newConfig, filled row by row
RECURSIVE BuildRoutingConfig(_)
BuildRoutingConfig(rows) ==
    IF rows = <<>> THEN [m \in {} |-> NULL]
    ELSE LET rest == BuildRoutingConfig(SubSeq(rows, 1, Len(rows) - 1))
             row == rows[Len(rows)]
         IN  [m \in DOMAIN rest \cup {row.model_id} |->
                 IF m = row.model_id
                 THEN [useOpenRouter |-> row.use_openrouter,
                       openRouterModelId |-> row.openrouter_model_id]
                 ELSE rest[m]]

\* fetchOpenRouterPricing: newCache, filled model by model; a model without
\* id or pricing is left out
RECURSIVE BuildPricingCache(_)
BuildPricingCache(models) ==
    IF models = <<>> THEN [w \in {} |-> NULL]
    ELSE LET rest == BuildPricingCache(SubSeq(models, 1, Len(models) - 1))
             model == models[Len(models)]
         IN  IF ~model.hasPricing THEN rest
             ELSE [w \in DOMAIN rest \cup {model.id} |->
                      IF w = model.id
                      THEN [prompt |-> model.prompt, completion |-> model.completion]
                      ELSE rest[w]]

\* modelRoutingConfig after loadModelRoutingConfig: model_id -> entry
RoutingTable == BuildRoutingConfig(RoutingRows)

\* pricingCache after fetchOpenRouterPricing: wire model id -> prices
PricingTable == BuildPricingCache(PricingModels)

\* AI_PROVIDERS_CONFIG: models with a direct provider, its url and api key
DirectProviders ==
    [m \in {<<"gpt">>, <<"gemini">>} |->
        IF m = <<"gpt">>
        THEN [provider |-> "openai", url |-> "https://openai", apiKey |-> "openai-key"]
        ELSE [provider |-> "gemini", url |-> "https://gemini", apiKey |-> "gemini-key"]]

\* OPENROUTER_CONFIG.apiKey and OPENROUTER_CONFIG.url
OpenRouterKey == "openrouter-key"

OpenRouterUrl == "https://openrouter"

\* content deltas an upstream data line may carry; "_b" stands for " b"
\* (one space, so one more word for the token estimate)
Deltas == {"a", "_b"}

\* a line of an upstream chunk is a data line with a content delta ("a",
\* "_b"), the [DONE] sentinel ("DONE"), a data line whose JSON does not
\* parse ("BAD"), a well-formed data line without delta content ("EMPTY")
\* or a line without the "data: " prefix ("OTHER").
\* The upstream chunks tried: one or two whole lines each, with every kind
\* of line, a delta before and after a line that does not parse, and two
\* deltas in one chunk in both orders
Chunks ==
    { <<"a">>, <<"_b">>, <<"DONE">>, <<"BAD">>, <<"EMPTY">>, <<"OTHER">>,
      <<"a", "_b">>, <<"_b", "a">>, <<"a", "BAD">>, <<"BAD", "a">>,
      <<"EMPTY", "_b">>, <<"a", "DONE">> }

VARIABLES
    payload,            \* the request: conversationId, model, messages
    pc,                 \* position of handleStreamChatRequest's body
    thrown,             \* the error handleStreamChatRequest rejected with
    conversationId,     \* let conversationId
    upstream,           \* the upstream response stream: none/connecting/open/ended/errored/failed
    chunksReceived,     \* number of 'data' events delivered so far
    timers,             \* pending timers: 0 = streamTimeout, k = armed by the k-th 'data'
    fired,              \* timers that fired: [id, chunks, phase, wrote]
    fullContent,        \* let fullContent (sequence of deltas)
    deltasReceived,     \* history: the deltas of the well-formed data lines delivered
    endPc,              \* position of the async 'end' handler
    assistantMessageId, \* id returned by the save of the assistant message
    reqCost,            \* cost computed by logUsage -> calculateCost
    resWrites,          \* every res.write call: [ev, sent]
    writableEnded,      \* res.writableEnded
    callerClosedAt,     \* NULL, or the upstream's state when the caller closed its connection
    conversations,      \* rows inserted into conversations
    messages,           \* rows inserted into messages
    saveAttempts,       \* inserts attempted into messages, per role
    usageLogs,          \* rows inserted into usage_logs
    usageAttempts,      \* inserts attempted into usage_logs
    dailyCount,         \* today's success usage_logs of the user before the request
    accumulatedCost,    \* costLimiterService: cost accumulated in the window
    costAtStart,        \* accumulatedCost when the request started
    addCostCalls,       \* arguments of every costLimiterService.addCost call
    modelRoutingConfig, \* this.modelRoutingConfig
    pricingCache,       \* this.pricingCache
    aiProvidersConfig,  \* AI_PROVIDERS_CONFIG
    openRouterApiKey,   \* OPENROUTER_CONFIG.apiKey, NULL when not configured
    prepared,           \* what the call of prepareAIRequest returned or threw
    clientPc,           \* position of the client's sendAIRequestStreaming
    readsDone,          \* history: the lines of every reader.read() that returned a value
    callbacks,          \* every call of actualOnChunk / actualOnComplete / actualOnError
    clientFullContent,  \* sendAIRequestStreaming: let fullContent
    messageId,          \* sendAIRequestStreaming: let messageId
    errorPayload,       \* sendAIRequestStreaming: let errorPayload (is it set)
    pendingAttachments, \* the chat input's useState attachments
    fileReads,          \* calls of processFiles whose file reads have not settled
    handlerCalls,       \* number of handleFileSelect / handleDrop calls so far
    sentMessage,        \* what handleFinish passed to onSendMessage
    responseBody,       \* the response body: the events the server sent, the text not yet read
    storeMessages,      \* useChatStore: messages
    activeConversation, \* useChatStore: activeConversation, NULL for a new chat
    messagesCache,      \* useChatStore: messagesCache (<<>> where nothing is cached)
    loading,            \* useChatStore: loading
    fetches,            \* fetchMessages calls waiting for getMessages
    sends,              \* sendMessage calls: position and the closure's values
    errorHandlerCalls,  \* the sendMessage calls that invoked get().onError
    db,                 \* the messages table as getMessages returns it, per conversation
    logoutInProgress,   \* auth-events: let logoutInProgress
    listening,          \* auth-events: is AuthLogoutHandler's callback in listeners
    signOuts,           \* every signOut call of the logout handler: pending / resolved / rejected
    unauthorized,       \* every 401 response: was the listener notified
    concurrent,         \* concurrent requests of one user: position of each
    dayLogs,            \* number of the user's success usage_logs rows of today
    pricingCacheTimestamp, \* this.pricingCacheTimestamp
    failedRefresh       \* history: the tables before the last refresh, if it failed

vars == <<payload, pc, thrown, conversationId, upstream, chunksReceived, timers,
          fired, fullContent, deltasReceived, endPc, assistantMessageId, reqCost, resWrites,
          writableEnded, callerClosedAt, conversations, messages, saveAttempts,
          usageLogs, usageAttempts, dailyCount, accumulatedCost, costAtStart,
          addCostCalls, modelRoutingConfig, pricingCache, aiProvidersConfig,
          openRouterApiKey, prepared,
          clientPc, readsDone, callbacks, clientFullContent, messageId, errorPayload,
          pendingAttachments, fileReads, handlerCalls, sentMessage,
          responseBody,
          storeMessages, activeConversation, messagesCache, loading, fetches, sends,
          errorHandlerCalls, db,
          logoutInProgress, listening, signOuts, unauthorized,
          concurrent, dayLogs,
          pricingCacheTimestamp, failedRefresh>>


(***************************************************************************)
(* The request's messages: content is a sequence of characters.            *)
(***************************************************************************)
LongText == [i \in 1..(TitleMaxLen + 2) |-> "x"]

\* attachments as the validation admits them (size in bytes); the pdf
\* declares a mime type other than application/pdf
Image ==
    [type |-> "image", name |-> "p.png", mime_type |-> "image/png", size |-> 3,
     data |-> "aW1n"]

Pdf ==
    [type |-> "pdf", name |-> "d.pdf", mime_type |-> "application/x-pdf", size |-> 3,
     data |-> "cGRm"]

Markdown ==
    [type |-> "markdown", name |-> "n.md", mime_type |-> "text/markdown", size |-> 3,
     data |-> "# t"]

ShortChat == << [role |-> "user", content |-> <<"h", "i">>, attachments |-> <<>>] >>

\* one user message with an attachment of each type
AttachedChat ==
    << [role |-> "user", content |-> <<"h", "i">>,
        attachments |-> <<Image, Markdown, Pdf>>] >>

\* the last user message is longer than a title
LongLastChat ==
    << [role |-> "user", content |-> <<"h", "i">>, attachments |-> <<>>],
       [role |-> "assistant", content |-> <<"o", "k">>, attachments |-> <<>>],
       [role |-> "user", content |-> LongText, attachments |-> <<>>] >>

LongChat ==
    << [role |-> "user", content |-> LongText, attachments |-> <<>>],
       [role |-> "assistant", content |-> <<"o", "k">>, attachments |-> <<>>],
       [role |-> "user", content |-> <<"y", "o">>, attachments |-> <<>>] >>

\* the requests tried: a new and an existing conversation, a model routed
\* to the aggregator with and without a pricing entry, a direct model with
\* attachments on the user message and a model without any configuration
Requests ==
    { [conversationId |-> NULL, model |-> <<"claude">>, messages |-> LongChat,
       temperature |-> NULL, top_p |-> NULL],
      [conversationId |-> "conv-1", model |-> <<"gpt">>, messages |-> AttachedChat,
       temperature |-> NULL, top_p |-> NULL],
      [conversationId |-> "conv-1", model |-> <<"mistral">>, messages |-> LongChat,
       temperature |-> NULL, top_p |-> NULL],
      [conversationId |-> NULL, model |-> <<"unknown">>, messages |-> LongLastChat,
       temperature |-> NULL, top_p |-> NULL] }

\* ids the persistence store hands out
NewConversationId == "conv-new"
UserMessageId == "msg-user"
AssistantMessageId == "msg-assistant"

\* profile.daily_request_limit || LIMITS.DEFAULT_DAILY_REQUEST_LIMIT
DailyRequestLimit == 2

(***************************************************************************)
(* Events written to the caller's response.                                *)
(***************************************************************************)
ContentEvent(c) == [type |-> "content", text |-> c, id |-> NULL, message_id |-> NULL]

CompleteEvent(id, mid) == [type |-> "complete", text |-> NULL, id |-> id, message_id |-> mid]

ErrorEvent(e) == [type |-> "error", text |-> e, id |-> NULL, message_id |-> NULL]

TimeoutError == ErrorEvent("Stream timeout")

SaveError == ErrorEvent("Failed to save response.")

StreamingError == ErrorEvent("Streaming error occurred")

ConnectError == ErrorEvent("Failed to connect to AI provider")

\* res.write(ev): the response takes the event unless res.end() was called
\* before (ERR_STREAM_WRITE_AFTER_END: the event is dropped) or the caller's
\* socket is gone; the call is recorded either way
ResWrite(log, ended, connected, ev) ==
    Append(log, [ev |-> ev, sent |-> (~ended /\ connected)])

\* res.write of each event of evs, in order
RECURSIVE ResWriteAll(_, _, _, _)
ResWriteAll(log, ended, connected, evs) ==
    IF evs = <<>> THEN log
    ELSE ResWriteAll(ResWrite(log, ended, connected, Head(evs)), ended, connected, Tail(evs))

(***************************************************************************)
(* costLimiterService (its source is not part of the files modelled here;  *)
(* taken from the specification's Cost Governor).                          *)
(***************************************************************************)
CanProceed(acc, estimated) == acc + estimated <= HourlyCostCeiling

AddCost(acc, cost) == acc + cost

(***************************************************************************)
(* Strings that the code tests or builds: a sequence of tokens.            *)
(***************************************************************************)
\* s.startsWith(prefix)
StartsWith(s, prefix) ==
    Len(s) >= Len(prefix) /\ SubSeq(s, 1, Len(prefix)) = prefix

\* 'anthropic/'
AnthropicPrefix == <<"anthropic", "/">>

\* `data:${att.mime_type};base64,${att.data}`
DataUri(att) == <<"data:", att.mime_type, ";base64,", att.data>>

\* `\n\n--- Файл: ${att.name} ---\n${att.data}\n---`
MarkdownBlock(att) == <<"\n\n--- File: ", att.name, " ---\n", att.data, "\n---">>

\* a JS object is a function from its keys; obj[key] = val
EmptyObject == [k \in {} |-> NULL]

Put(obj, key, val) ==
    [k \in DOMAIN obj \cup {key} |-> IF k = key THEN val ELSE obj[k]]

\* a message's content is a plain string or an array of parts
\* the text wrapped in a one-element array of parts
StringContentAsOnePart(text) ==
    [isArray |-> TRUE, text |-> <<>>, parts |-> << [type |-> "text", text |-> text] >>]

StringContent(text) == [isArray |-> FALSE, text |-> text, parts |-> <<>>]

ArrayContent(parts) == [isArray |-> TRUE, text |-> <<>>, parts |-> parts]

TextPart(text) == [type |-> "text", text |-> text]

(***************************************************************************)
(* buildOpenAIContent                                                      *)
(***************************************************************************)
RECURSIVE OpenAIAttachmentParts(_)
OpenAIAttachmentParts(atts) ==
    IF atts = <<>> THEN <<>>
    ELSE (CASE Head(atts).type = "image" ->
                 << [type |-> "image_url", image_url |-> [url |-> DataUri(Head(atts))]] >>
            [] Head(atts).type = "pdf" ->
                 << [type |-> "file",
                     file |-> [filename |-> Head(atts).name,
                               file_data |-> DataUri(Head(atts))]] >>
            [] Head(atts).type = "markdown" -> << TextPart(MarkdownBlock(Head(atts))) >>
            [] OTHER -> <<>>)
         \o OpenAIAttachmentParts(Tail(atts))

\* markdown blocks appended to the text of the first part, parts for the
\* image and pdf attachments only
BuildOpenAIContentInliningMarkdown(msg) ==
    LET RECURSIVE blocks(_)
        blocks(atts) ==
            IF atts = <<>> THEN <<>>
            ELSE (IF Head(atts).type = "markdown" THEN MarkdownBlock(Head(atts)) ELSE <<>>)
                 \o blocks(Tail(atts))
    IN  IF msg.attachments = <<>> THEN StringContent(msg.content)
        ELSE ArrayContent(
                 <<TextPart(msg.content \o blocks(msg.attachments))>>
                 \o OpenAIAttachmentParts(
                        SelectSeq(msg.attachments, LAMBDA a : a.type # "markdown")))

BuildOpenAIContent(msg) ==
    IF msg.attachments = <<>> THEN StringContent(msg.content)
    ELSE ArrayContent(<<TextPart(msg.content)>> \o OpenAIAttachmentParts(msg.attachments))

(***************************************************************************)
(* buildClaudeContent                                                      *)
(***************************************************************************)
RECURSIVE ClaudeAttachmentParts(_)
ClaudeAttachmentParts(atts) ==
    IF atts = <<>> THEN <<>>
    ELSE (CASE Head(atts).type = "image" ->
                 << [type |-> "image",
                     source |-> [type |-> "base64", media_type |-> Head(atts).mime_type,
                                 data |-> Head(atts).data]] >>
            [] Head(atts).type = "pdf" ->
                 << [type |-> "document",
                     source |-> [type |-> "base64", media_type |-> "application/pdf",
                                 data |-> Head(atts).data]] >>
            [] Head(atts).type = "markdown" -> << TextPart(MarkdownBlock(Head(atts))) >>
            [] OTHER -> <<>>)
         \o ClaudeAttachmentParts(Tail(atts))

\* the message's text block first, the attachments after it
BuildClaudeContentTextFirst(msg) ==
    IF msg.attachments = <<>> THEN StringContent(msg.content)
    ELSE ArrayContent(<<TextPart(msg.content)>> \o ClaudeAttachmentParts(msg.attachments))

BuildClaudeContent(msg) ==
    IF msg.attachments = <<>> THEN StringContent(msg.content)
    ELSE ArrayContent(ClaudeAttachmentParts(msg.attachments) \o <<TextPart(msg.content)>>)

(***************************************************************************)
(* buildGeminiParts                                                        *)
(***************************************************************************)
RECURSIVE GeminiAttachmentParts(_)
GeminiAttachmentParts(atts) ==
    IF atts = <<>> THEN <<>>
    ELSE (CASE Head(atts).type = "image" ->
                 << [inline_data |-> [mime_type |-> Head(atts).mime_type,
                                      data |-> Head(atts).data]] >>
            [] Head(atts).type = "pdf" ->
                 << [inline_data |-> [mime_type |-> "application/pdf",
                                      data |-> Head(atts).data]] >>
            [] Head(atts).type = "markdown" -> << [text |-> MarkdownBlock(Head(atts))] >>
            [] OTHER -> <<>>)
         \o GeminiAttachmentParts(Tail(atts))

\* the text part pushed only for a message without attachments
BuildGeminiPartsTextIfAlone(msg) ==
    IF msg.attachments = <<>> THEN << [text |-> msg.content] >>
    ELSE GeminiAttachmentParts(msg.attachments)

BuildGeminiParts(msg) ==
    GeminiAttachmentParts(msg.attachments) \o << [text |-> msg.content] >>

(***************************************************************************)
(* prepareAIRequest                                                        *)
(***************************************************************************)
HasRoute(routing, model) == model \in DOMAIN routing

\* useOpenRouter taken to be set as soon as the model has a routing entry
UseOpenRouterWhenListed(routing, model) == HasRoute(routing, model)

\* routeConfig?.useOpenRouter ?? false
UseOpenRouter(routing, model) ==
    IF HasRoute(routing, model) THEN routing[model].useOpenRouter ELSE FALSE

\* the aggregator branch taken without a look at OPENROUTER_CONFIG.apiKey
RoutesToOpenRouterWithoutKey(routing, orKey, model) == UseOpenRouter(routing, model)

\* if (useOpenRouter && OPENROUTER_CONFIG.apiKey)
RoutesToOpenRouter(routing, orKey, model) ==
    UseOpenRouter(routing, model) /\ orKey # NULL

\* routeConfig.openRouterModelId || model
OrModelId(routing, model) ==
    IF routing[model].openRouterModelId # <<>>
    THEN routing[model].openRouterModelId ELSE model

\* 'anthropic/' looked for anywhere in the id (includes, not startsWith)
IsClaudeModelAnywhere(orModelId) ==
    \E i \in 1..Len(orModelId) :
        StartsWith(SubSeq(orModelId, i, Len(orModelId)), AnthropicPrefix)

\* orModelId.startsWith('anthropic/')
IsClaudeModel(orModelId) == StartsWith(orModelId, AnthropicPrefix)

\* messages.map(msg => ({ role: msg.role, content: ... }))
ClaudeMessages(msgs) ==
    [i \in 1..Len(msgs) |-> [role |-> msgs[i].role, content |-> BuildClaudeContent(msgs[i])]]

OpenAIMessages(msgs) ==
    [i \in 1..Len(msgs) |-> [role |-> msgs[i].role, content |-> BuildOpenAIContent(msgs[i])]]

\* messages.map(...) without the filter: a system message becomes a user turn
GeminiContentsKeepsSystem(msgs) ==
    [i \in 1..Len(msgs) |->
        [role |-> IF msgs[i].role = "assistant" THEN "model" ELSE "user",
         parts |-> BuildGeminiParts(msgs[i])]]

\* messages.filter(user or assistant).map(...)
GeminiContents(msgs) ==
    LET kept == SelectSeq(msgs, LAMBDA m : m.role = "user" \/ m.role = "assistant")
    IN  [i \in 1..Len(kept) |->
            [role |-> IF kept[i].role = "assistant" THEN "model" ELSE "user",
             parts |-> BuildGeminiParts(kept[i])]]

\* { model, messages, stream }
ChatBody(model, msgs, stream) ==
    Put(Put(Put(EmptyObject, "model", model), "messages", msgs), "stream", stream)

\* the temperature and top_p steps
WithTemperature(body, provider, temperature) ==
    IF temperature = NULL THEN body
    ELSE IF provider = "gemini"
    THEN Put(body, "generationConfig",
             Put(IF "generationConfig" \in DOMAIN body
                 THEN body["generationConfig"] ELSE EmptyObject,
                 "temperature", temperature))
    ELSE Put(body, "temperature", temperature)

WithTopP(body, provider, top_p) ==
    IF top_p = NULL THEN body ELSE Put(body, "top_p", top_p)

PrepareError(message) == [ok |-> FALSE, error |-> message]

PrepareAIRequest(routing, orKey, providers, request, stream) ==
    LET model == request.model
        sampled(body, provider) ==
            WithTopP(WithTemperature(body, provider, request.temperature),
                     provider, request.top_p)
        result(targetUrl, apiKey, body, provider) ==
            IF apiKey = NULL THEN PrepareError("API key is not configured")
            ELSE [ok |-> TRUE, targetUrl |-> targetUrl, apiKey |-> apiKey,
                  requestBody |-> sampled(body, provider), provider |-> provider]
    IN  IF RoutesToOpenRouter(routing, orKey, model)
        THEN result(OpenRouterUrl, orKey,
                    ChatBody(OrModelId(routing, model),
                             IF IsClaudeModel(OrModelId(routing, model))
                             THEN ClaudeMessages(request.messages)
                             ELSE OpenAIMessages(request.messages),
                             stream),
                    "openrouter")
        ELSE IF model \notin DOMAIN providers \/ providers[model].apiKey = NULL
        THEN PrepareError("Configuration is missing or incomplete")
        ELSE result(providers[model].url, providers[model].apiKey,
                    IF providers[model].provider = "gemini"
                    THEN Put(EmptyObject, "contents", GeminiContents(request.messages))
                    ELSE ChatBody(model, OpenAIMessages(request.messages), stream),
                    providers[model].provider)

(***************************************************************************)
(* logUsage / calculateCost.                                               *)
(***************************************************************************)
RECURSIVE Spaces(_)
Spaces(content) ==
    IF content = <<>> THEN 0
    ELSE (IF Head(content) = "_b" THEN 1 ELSE 0) + Spaces(Tail(content))

\* assistantContent.split(' ').length
WordCount(content) == Spaces(content) + 1

\* Math.ceil(words / 0.75)
CompletionTokens(content) == (4 * WordCount(content) + 2) \div 3

\* parseFloat(cost.toFixed(6)): prices in 1e-7 $, the cost in 1e-6 $
RoundToMicro(tenthMicros) == (tenthMicros + 5) \div 10

\* a cost is a number or null
Cost(n) == [null |-> FALSE, value |-> n]

NullCost == [null |-> TRUE, value |-> 0]

CalculateCost(routing, pricing, model, promptTokens, completionTokens) ==
    IF HasRoute(routing, model) /\ routing[model].useOpenRouter
       /\ routing[model].openRouterModelId # <<>>
       /\ routing[model].openRouterModelId \in DOMAIN pricing
    THEN Cost(RoundToMicro(
             promptTokens * pricing[routing[model].openRouterModelId].prompt
             + completionTokens * pricing[routing[model].openRouterModelId].completion))
    ELSE NullCost

\* if (cost): null and 0 are falsy
Truthy(cost) == ~cost.null /\ cost.value # 0

\* the whole attachments, payload included, handed to saveMessage
AttachmentsWithData(atts) == atts

\* attachmentsMeta: type, name, mime_type and size of each attachment; the
\* insert carries them when there is at least one
AttachmentsMeta(atts) ==
    [i \in 1..Len(atts) |->
        [type |-> atts[i].type, name |-> atts[i].name,
         mime_type |-> atts[i].mime_type, size |-> atts[i].size]]

\* createConversation: the last user-role message, cut to 50 characters
UserContents(msgs) == SelectSeq(msgs, LAMBDA m : m.role = "user")

\* the title taken from the first user-role message
ConversationTitleFromFirst(msgs) ==
    LET first == UserContents(msgs)[1].content
    IN  SubSeq(first, 1, IF Len(first) < TitleMaxLen THEN Len(first) ELSE TitleMaxLen)

\* 'New Chat'
NewChatTitle == <<"N", "e", "w", " ", "C", "h", "a", "t">>

ConversationTitle(msgs) ==
    LET last == IF UserContents(msgs) = <<>> THEN NewChatTitle
                ELSE UserContents(msgs)[Len(UserContents(msgs))].content
    IN  SubSeq(last, 1, IF Len(last) < TitleMaxLen THEN Len(last) ELSE TitleMaxLen)

(***************************************************************************)
(* The 'data' handler's loop over the lines of one chunk: a content delta  *)
(* is appended to fullContent and written; a line that does not parse      *)
(* throws, and the catch around the loop drops the rest of the chunk.      *)
(***************************************************************************)
RECURSIVE ChunkDeltas(_)
ChunkDeltas(lines) ==
    IF lines = <<>> THEN <<>>
    ELSE IF Head(lines) = "BAD" THEN <<>>
    ELSE IF Head(lines) \in Deltas THEN <<Head(lines)>> \o ChunkDeltas(Tail(lines))
    ELSE ChunkDeltas(Tail(lines))

\* the deltas carried by the well-formed data lines of a chunk, whatever
\* else the chunk holds
WellFormedDeltas(lines) == SelectSeq(lines, LAMBDA l : l \in Deltas)

RECURSIVE ContentEvents(_)
ContentEvents(deltas) ==
    IF deltas = <<>> THEN <<>>
    ELSE <<ContentEvent(Head(deltas))>> \o ContentEvents(Tail(deltas))

Min(S) == CHOOSE x \in S : \A y \in S : x <= y

\* prepareAIRequest has not been called; the result of its call
NotPrepared == [called |-> FALSE]

Prepared(result) == [called |-> TRUE, result |-> result]


(***************************************************************************)
(* The browser side before sendAIRequestStreaming is called and before any *)
(* file is selected.                                                       *)
(***************************************************************************)
ClientInit ==
    /\ clientPc = "getSession"
    /\ readsDone = <<>>
    /\ callbacks = <<>>
    /\ clientFullContent = <<>>
    /\ messageId = ""
    /\ errorPayload = FALSE

NothingSent == [sent |-> FALSE, attachments |-> <<>>]

UploadInit ==
    /\ pendingAttachments = <<>>
    /\ fileReads = <<>>
    /\ handlerCalls = 0
    /\ sentMessage = NothingSent

\* no response body is followed
NoBody == [sent |-> <<>>, unread |-> <<>>]

\* the conversations of the user in the browser, and the one the server
\* creates for a request without conversationId
StoredConversations == {"conv-A", "conv-B"}

\* the sendMessage calls followed: a first one and a second one
SendIds == {1, 2}

\* the conversation the server creates for the r-th sendMessage call
NewConversationOf(r) == "conv-N" \o ToString(r)

AllConversations == StoredConversations \cup {NewConversationOf(r) : r \in SendIds}

\* a message id: the n-th row of a conversation, or the nanoid() of the
\* optimistic user / assistant message of the n-th sendMessage call
MessageIdOf(of, n) == [of |-> of, n |-> n]

\* a Message of the store; content is the sequence of the pieces appended,
\* each with the sendMessage call whose chunk it was (0: not streamed)
StoreMessage(id, conv, role, content) ==
    [id |-> id, conversation_id |-> conv, role |-> role, content |-> content]

Piece(text, call) == [text |-> text, call |-> call]

\* the rows of the messages table before any request of the session
StoredMessages ==
    [conv \in AllConversations |->
        CASE conv = "conv-A" ->
                << StoreMessage(MessageIdOf("conv-A", 1), "conv-A", "user",
                                <<Piece("question A", 0)>>),
                   StoreMessage(MessageIdOf("conv-A", 2), "conv-A", "assistant",
                                <<Piece("answer A", 0)>>) >>
          [] conv = "conv-B" ->
                << StoreMessage(MessageIdOf("conv-B", 1), "conv-B", "user",
                                <<Piece("question B", 0)>>),
                   StoreMessage(MessageIdOf("conv-B", 2), "conv-B", "assistant",
                                <<Piece("answer B", 0)>>) >>
          [] OTHER -> <<>>]

NotCalled == [pc |-> "idle", conversation |-> NULL, streamed |-> 0]

StoreInit ==
    /\ storeMessages = <<>>
    /\ activeConversation = NULL
    /\ messagesCache = [conv \in AllConversations |-> <<>>]
    /\ loading = FALSE
    /\ fetches = <<>>
    /\ sends = [r \in SendIds |-> NotCalled]
    /\ errorHandlerCalls = <<>>
    /\ db = StoredMessages

AuthInit ==
    /\ logoutInProgress = FALSE
    /\ listening = FALSE
    /\ signOuts = <<>>
    /\ unauthorized = <<>>

QuotaInit ==
    /\ concurrent = <<>>
    /\ dayLogs = 0

\* time is counted from the fetch that installed the pricing cache
TablesInit ==
    /\ pricingCacheTimestamp = 0
    /\ failedRefresh = <<>>

RestInit ==
    /\ responseBody = NoBody
    /\ StoreInit
    /\ AuthInit
    /\ QuotaInit
    /\ TablesInit

(***************************************************************************)
(* Initial state: the request has arrived, nothing has run yet.            *)
(***************************************************************************)
Init ==
    /\ payload \in Requests
    /\ pc = "checkUserLimits"
    /\ thrown = NULL
    /\ conversationId = NULL
    /\ upstream = "none"
    /\ chunksReceived = 0
    /\ timers = {}
    /\ fired = <<>>
    /\ fullContent = <<>>
    /\ deltasReceived = <<>>
    /\ endPc = "idle"
    /\ assistantMessageId = NULL
    /\ reqCost = NullCost
    /\ resWrites = <<>>
    /\ writableEnded = FALSE
    /\ callerClosedAt = NULL
    /\ conversations = <<>>
    /\ messages = <<>>
    /\ saveAttempts = [user |-> 0, assistant |-> 0]
    /\ usageLogs = <<>>
    /\ usageAttempts = 0
    /\ dailyCount \in {0, DailyRequestLimit}
    /\ accumulatedCost \in {HourlyCostCeiling - EstimatedCost, HourlyCostCeiling}
    /\ costAtStart = accumulatedCost
    /\ addCostCalls = <<>>
    /\ modelRoutingConfig = RoutingTable
    /\ pricingCache = PricingTable
    /\ aiProvidersConfig = DirectProviders
    /\ openRouterApiKey = OpenRouterKey
    /\ prepared = NotPrepared
    /\ ClientInit
    /\ UploadInit
    /\ RestInit

clientVars == <<clientPc, readsDone, callbacks, clientFullContent, messageId, errorPayload>>

uploadVars == <<pendingAttachments, fileReads, handlerCalls, sentMessage>>

storeVars == <<storeMessages, activeConversation, messagesCache, loading, fetches, sends,
               errorHandlerCalls, db>>

authVars == <<logoutInProgress, listening, signOuts, unauthorized>>

quotaVars == <<concurrent, dayLogs>>

\* the state of the components modelled further below
refreshVars == <<pricingCacheTimestamp, failedRefresh>>

restVars == <<responseBody, storeVars, authVars, quotaVars, refreshVars>>

\* what neither loadModelRoutingConfig nor fetchOpenRouterPricing writes,
\* of the request and of the browser
notRefreshVars == <<payload, dailyCount, costAtStart, aiProvidersConfig, openRouterApiKey,
                    clientVars, uploadVars, responseBody, storeVars, authVars, quotaVars>>

\* what no step of handleStreamChatRequest writes: the request, the
\* configuration, and the state of the browser
requestVars == <<payload, dailyCount, costAtStart, aiProvidersConfig, openRouterApiKey,
                 clientVars, uploadVars, restVars>>

tableVars == <<modelRoutingConfig, pricingCache>>

inputVars == <<requestVars, tableVars, prepared>>

dbVars == <<conversations, messages, saveAttempts, usageLogs, usageAttempts>>

costVars == <<accumulatedCost, addCostCalls>>

resVars == <<resWrites, writableEnded>>

streamVars == <<upstream, chunksReceived, timers, fired, fullContent, deltasReceived, endPc,
                assistantMessageId, reqCost>>

\* res.write(ev); res.end()
WriteAndEnd(ev) ==
    /\ resWrites' = ResWrite(resWrites, writableEnded, callerClosedAt = NULL, ev)
    /\ writableEnded' = TRUE

\* if (!res.writableEnded) { res.write(ev); res.end() }
GuardedWriteAndEnd(ev) ==
    IF ~writableEnded THEN WriteAndEnd(ev) ELSE UNCHANGED resVars

\* throw: handleStreamChatRequest rejects with the error
Throw(code) ==
    /\ pc' = "rejected"
    /\ thrown' = code

(***************************************************************************)
(* await this.checkUserLimits(userId), then let conversationId             *)
(***************************************************************************)
CheckUserLimits(dbOk) ==
    /\ pc = "checkUserLimits"
    /\ IF ~dbOk
       THEN Throw("USER_LIMITS_UNAVAILABLE") /\ UNCHANGED conversationId
       ELSE IF dailyCount >= DailyRequestLimit
       THEN Throw("DAILY_LIMIT_EXCEEDED") /\ UNCHANGED conversationId
       ELSE /\ conversationId' = payload.conversationId
            /\ pc' = IF payload.conversationId = NULL
                     THEN "createConversation" ELSE "saveUserMessage"
            /\ UNCHANGED thrown
    /\ UNCHANGED <<inputVars, dbVars, costVars, resVars, streamVars, callerClosedAt>>

(***************************************************************************)
(* conversationId = await this.createConversation(userId, messages)        *)
(***************************************************************************)
CreateConversation(dbOk) ==
    /\ pc = "createConversation"
    /\ IF dbOk
       THEN /\ conversations' = Append(conversations,
                  [id |-> NewConversationId, title |-> ConversationTitle(payload.messages)])
            /\ conversationId' = NewConversationId
            /\ pc' = "saveUserMessage"
            /\ UNCHANGED thrown
       ELSE /\ Throw("CREATE_CONVERSATION_FAILED")
            /\ UNCHANGED <<conversations, conversationId>>
    /\ UNCHANGED <<inputVars, messages, saveAttempts, usageLogs, usageAttempts,
                   costVars, resVars, streamVars, callerClosedAt>>

(***************************************************************************)
(* SaveUserMessage with setTimeout(streamTimeout) moved ahead of the       *)
(* hourly cost check and prepareAIRequest.                                 *)
(***************************************************************************)
SaveUserMessageArmsTimerFirst(dbOk) ==
    /\ pc = "saveUserMessage"
    /\ saveAttempts' = [saveAttempts EXCEPT !.user = @ + 1]
    /\ IF ~dbOk
       THEN /\ Throw("SAVE_USER_MESSAGE_FAILED")
            /\ UNCHANGED <<messages, upstream, timers, prepared>>
       ELSE /\ messages' = Append(messages,
                  [id |-> UserMessageId, conversation_id |-> conversationId,
                   role |-> "user",
                   content |-> payload.messages[Len(payload.messages)].content,
                   model |-> NULL,
                   attachments |-> AttachmentsMeta(
                       payload.messages[Len(payload.messages)].attachments)])
            /\ timers' = {0}
            /\ IF ~CanProceed(accumulatedCost, EstimatedCost)
               THEN Throw("HOURLY_LIMIT_EXCEEDED") /\ UNCHANGED <<upstream, prepared>>
               ELSE /\ prepared' = Prepared(PrepareAIRequest(
                                       modelRoutingConfig, openRouterApiKey,
                                       aiProvidersConfig, payload, TRUE))
                    /\ IF ~prepared'.result.ok
                       THEN Throw("CONFIGURATION_ERROR") /\ UNCHANGED upstream
                       ELSE /\ upstream' = "connecting"
                            /\ pc' = "connecting"
                            /\ UNCHANGED thrown
    /\ UNCHANGED <<requestVars, tableVars, conversationId, conversations, usageLogs, usageAttempts,
                   costVars, resVars, chunksReceived, fired, fullContent, deltasReceived, endPc,
                   assistantMessageId, reqCost, callerClosedAt>>

(***************************************************************************)
(* await this.saveMessage(conversationId, userId, 'user', ...), then, in   *)
(* the same turn of the event loop: the hourly cost check,                 *)
(* prepareAIRequest, setTimeout(streamTimeout) and the call of axios.post. *)
(***************************************************************************)
SaveUserMessage(dbOk) ==
    /\ pc = "saveUserMessage"
    /\ saveAttempts' = [saveAttempts EXCEPT !.user = @ + 1]
    /\ IF ~dbOk
       THEN /\ Throw("SAVE_USER_MESSAGE_FAILED")
            /\ UNCHANGED <<messages, upstream, timers, prepared>>
       ELSE /\ messages' = Append(messages,
                  [id |-> UserMessageId, conversation_id |-> conversationId,
                   role |-> "user",
                   content |-> payload.messages[Len(payload.messages)].content,
                   model |-> NULL,
                   attachments |-> AttachmentsMeta(
                       payload.messages[Len(payload.messages)].attachments)])
            /\ IF ~CanProceed(accumulatedCost, EstimatedCost)
               THEN Throw("HOURLY_LIMIT_EXCEEDED") /\ UNCHANGED <<upstream, timers, prepared>>
               ELSE /\ prepared' = Prepared(PrepareAIRequest(
                                       modelRoutingConfig, openRouterApiKey,
                                       aiProvidersConfig, payload, TRUE))
                    /\ IF ~prepared'.result.ok
                       THEN Throw("CONFIGURATION_ERROR") /\ UNCHANGED <<upstream, timers>>
                       ELSE /\ timers' = {0}
                            /\ upstream' = "connecting"
                            /\ pc' = "connecting"
                            /\ UNCHANGED thrown
    /\ UNCHANGED <<requestVars, tableVars, conversationId, conversations, usageLogs, usageAttempts,
                   costVars, resVars, chunksReceived, fired, fullContent, deltasReceived, endPc,
                   assistantMessageId, reqCost, callerClosedAt>>


(***************************************************************************)
(* await axios.post(...) resolves: let fullContent = '' and the 'data',    *)
(* 'end' and 'error' handlers are attached; the function returns.          *)
(***************************************************************************)
AxiosPostResolves ==
    /\ pc = "connecting"
    /\ upstream = "connecting"
    /\ pc' = "streaming"
    /\ upstream' = "open"
    /\ fullContent' = <<>>
    /\ UNCHANGED deltasReceived
    /\ UNCHANGED <<inputVars, thrown, conversationId, dbVars, costVars, resVars,
                   chunksReceived, timers, fired, endPc, assistantMessageId, reqCost,
                   callerClosedAt>>

(***************************************************************************)
(* await axios.post(...) rejects: the catch block.                         *)
(***************************************************************************)
AxiosPostRejects ==
    /\ pc = "connecting"
    /\ upstream = "connecting"
    /\ pc' = "caught"
    /\ upstream' = "failed"
    /\ timers' = timers \ {0}
    /\ GuardedWriteAndEnd(ConnectError)
    /\ UNCHANGED <<inputVars, thrown, conversationId, dbVars, costVars,
                   chunksReceived, fired, fullContent, deltasReceived, endPc, assistantMessageId,
                   reqCost, callerClosedAt>>

(***************************************************************************)
(* OnData that clears streamTimeout and arms no new timer.                 *)
(***************************************************************************)
OnDataClearsTimeout(chunk) ==
    /\ pc = "streaming"
    /\ upstream = "open"
    /\ chunksReceived < MaxChunks
    /\ chunksReceived' = chunksReceived + 1
    /\ timers' = timers \ {0}
    /\ fullContent' = fullContent \o ChunkDeltas(chunk)
    /\ deltasReceived' = deltasReceived \o WellFormedDeltas(chunk)
    /\ resWrites' = ResWriteAll(resWrites, writableEnded, callerClosedAt = NULL,
                                ContentEvents(ChunkDeltas(chunk)))
    /\ UNCHANGED <<inputVars, pc, thrown, conversationId, dbVars, costVars,
                   writableEnded, upstream, fired, endPc, assistantMessageId, reqCost,
                   callerClosedAt>>

(***************************************************************************)
(* aiResponse.data.on('data', chunk): clearTimeout(streamTimeout), a new   *)
(* setTimeout whose handle is not kept, then the loop over the lines.      *)
(***************************************************************************)
OnData(chunk) ==
    /\ pc = "streaming"
    /\ upstream = "open"
    /\ chunksReceived < MaxChunks
    /\ chunksReceived' = chunksReceived + 1
    /\ timers' = (timers \ {0}) \cup {chunksReceived + 1}
    /\ fullContent' = fullContent \o ChunkDeltas(chunk)
    /\ deltasReceived' = deltasReceived \o WellFormedDeltas(chunk)
    /\ resWrites' = ResWriteAll(resWrites, writableEnded, callerClosedAt = NULL,
                                ContentEvents(ChunkDeltas(chunk)))
    /\ UNCHANGED <<inputVars, pc, thrown, conversationId, dbVars, costVars,
                   writableEnded, upstream, fired, endPc, assistantMessageId, reqCost,
                   callerClosedAt>>

(***************************************************************************)
(* aiResponse.data.on('end'): clearTimeout(streamTimeout) and the call of  *)
(* saveMessage for the assistant message, awaited.                         *)
(***************************************************************************)
OnEnd ==
    /\ pc = "streaming"
    /\ upstream = "open"
    /\ upstream' = "ended"
    /\ timers' = timers \ {0}
    /\ saveAttempts' = [saveAttempts EXCEPT !.assistant = @ + 1]
    /\ endPc' = "saveMessage"
    /\ UNCHANGED <<inputVars, pc, thrown, conversationId, conversations, messages,
                   usageLogs, usageAttempts, costVars, resVars, chunksReceived, fired,
                   fullContent, deltasReceived, assistantMessageId, reqCost, callerClosedAt>>

\* SaveAssistantMessage as it would be if a failed save were only logged:
\* the handler goes on to logUsage and the complete event
SaveAssistantMessageSwallowsError(dbOk) ==
    /\ endPc = "saveMessage"
    /\ messages' = IF dbOk
                   THEN Append(messages,
                          [id |-> AssistantMessageId, conversation_id |-> conversationId,
                           role |-> "assistant", content |-> fullContent,
                           model |-> payload.model, attachments |-> <<>>])
                   ELSE messages
    /\ assistantMessageId' = IF dbOk THEN AssistantMessageId ELSE NULL
    /\ reqCost' = NullCost
    /\ usageAttempts' = usageAttempts + 1
    /\ endPc' = "logUsage"
    /\ UNCHANGED <<inputVars, pc, thrown, conversationId, conversations, saveAttempts,
                   usageLogs, costVars, resVars, upstream, chunksReceived, timers, fired,
                   fullContent, deltasReceived, callerClosedAt>>

(***************************************************************************)
(* The save of the assistant message settles.  Saved: logUsage runs up to  *)
(* its insert into usage_logs (token estimate, calculateCost, addCost when *)
(* the cost is truthy).  Failed: the catch writes the error event.         *)
(***************************************************************************)
SaveAssistantMessage(dbOk) ==
    /\ endPc = "saveMessage"
    /\ IF dbOk
       THEN LET cost == CalculateCost(modelRoutingConfig, pricingCache, payload.model,
                                      0, CompletionTokens(fullContent))
            IN  /\ messages' = Append(messages,
                      [id |-> AssistantMessageId, conversation_id |-> conversationId,
                       role |-> "assistant", content |-> fullContent,
                       model |-> payload.model, attachments |-> <<>>])
                /\ assistantMessageId' = AssistantMessageId
                /\ reqCost' = cost
                /\ IF Truthy(cost)
                   THEN /\ accumulatedCost' = AddCost(accumulatedCost, cost.value)
                        /\ addCostCalls' = Append(addCostCalls, cost.value)
                   ELSE UNCHANGED costVars
                /\ usageAttempts' = usageAttempts + 1
                /\ endPc' = "logUsage"
                /\ UNCHANGED resVars
       ELSE /\ WriteAndEnd(SaveError)
            /\ endPc' = "done"
            /\ UNCHANGED <<messages, assistantMessageId, reqCost, costVars, usageAttempts>>
    /\ UNCHANGED <<inputVars, pc, thrown, conversationId, conversations, saveAttempts,
                   usageLogs, upstream, chunksReceived, timers, fired, fullContent, deltasReceived,
                   callerClosedAt>>

\* LogUsageInsert as it would be if the complete event carried the
\* conversation id of the request's payload instead of the resolved one
LogUsageInsertPayloadId(dbOk) ==
    /\ endPc = "logUsage"
    /\ usageLogs' = IF dbOk
                    THEN Append(usageLogs,
                           [model |-> payload.model, prompt_tokens |-> 0,
                            completion_tokens |-> CompletionTokens(fullContent),
                            status |-> "success", cost |-> reqCost])
                    ELSE usageLogs
    /\ IF Truthy(reqCost)
       THEN /\ accumulatedCost' = AddCost(accumulatedCost, reqCost.value)
            /\ addCostCalls' = Append(addCostCalls, reqCost.value)
       ELSE UNCHANGED costVars
    /\ WriteAndEnd(CompleteEvent(payload.conversationId, assistantMessageId))
    /\ endPc' = "done"
    /\ UNCHANGED <<inputVars, pc, thrown, conversationId, conversations, messages,
                   saveAttempts, usageAttempts, upstream, chunksReceived, timers, fired,
                   fullContent, deltasReceived, assistantMessageId, reqCost, callerClosedAt>>

(***************************************************************************)
(* The insert into usage_logs settles (an error is only logged); logUsage  *)
(* returns { cost }; the 'end' handler calls addCost when the cost is      *)
(* truthy, writes the complete event and ends the response.                *)
(***************************************************************************)
LogUsageInsert(dbOk) ==
    /\ endPc = "logUsage"
    /\ usageLogs' = IF dbOk
                    THEN Append(usageLogs,
                           [model |-> payload.model, prompt_tokens |-> 0,
                            completion_tokens |-> CompletionTokens(fullContent),
                            status |-> "success", cost |-> reqCost])
                    ELSE usageLogs
    /\ IF Truthy(reqCost)
       THEN /\ accumulatedCost' = AddCost(accumulatedCost, reqCost.value)
            /\ addCostCalls' = Append(addCostCalls, reqCost.value)
       ELSE UNCHANGED costVars
    /\ WriteAndEnd(CompleteEvent(conversationId, assistantMessageId))
    /\ endPc' = "done"
    /\ UNCHANGED <<inputVars, pc, thrown, conversationId, conversations, messages,
                   saveAttempts, usageAttempts, upstream, chunksReceived, timers, fired,
                   fullContent, deltasReceived, assistantMessageId, reqCost, callerClosedAt>>

\* OnStreamError as it would be if the 'error' handler kept the partial
\* answer: it starts the save of fullContent as the 'end' handler does
OnStreamErrorSavesPartial ==
    /\ pc = "streaming"
    /\ upstream = "open"
    /\ upstream' = "errored"
    /\ timers' = timers \ {0}
    /\ saveAttempts' = [saveAttempts EXCEPT !.assistant = @ + 1]
    /\ endPc' = "saveMessage"
    /\ GuardedWriteAndEnd(StreamingError)
    /\ UNCHANGED <<inputVars, pc, thrown, conversationId, conversations, messages,
                   usageLogs, usageAttempts, costVars, chunksReceived, fired,
                   fullContent, deltasReceived, assistantMessageId, reqCost, callerClosedAt>>

(***************************************************************************)
(* aiResponse.data.on('error')                                             *)
(***************************************************************************)
OnStreamError ==
    /\ pc = "streaming"
    /\ upstream = "open"
    /\ upstream' = "errored"
    /\ timers' = timers \ {0}
    /\ GuardedWriteAndEnd(StreamingError)
    /\ UNCHANGED <<inputVars, pc, thrown, conversationId, dbVars, costVars,
                   chunksReceived, fired, fullContent, deltasReceived, endPc, assistantMessageId,
                   reqCost, callerClosedAt>>

(***************************************************************************)
(* A pending timer expires.  All timers have the same delay, so they       *)
(* expire in the order they were armed.  streamTimeout (0) writes without  *)
(* looking at res.writableEnded; the timers armed by 'data' check it.      *)
(***************************************************************************)
StreamTimeoutFires ==
    /\ 0 \in timers
    /\ timers' = timers \ {0}
    /\ fired' = Append(fired, [id |-> 0, chunks |-> chunksReceived, phase |-> upstream,
                               wrote |-> TRUE])
    /\ WriteAndEnd(TimeoutError)
    /\ UNCHANGED <<inputVars, pc, thrown, conversationId, dbVars, costVars, upstream,
                   chunksReceived, fullContent, deltasReceived, endPc, assistantMessageId, reqCost,
                   callerClosedAt>>

RearmedTimeoutFires(k) ==
    /\ k \in timers
    /\ k # 0
    /\ k = Min(timers)
    /\ timers' = timers \ {k}
    /\ fired' = Append(fired, [id |-> k, chunks |-> chunksReceived, phase |-> upstream,
                               wrote |-> ~writableEnded])
    /\ GuardedWriteAndEnd(TimeoutError)
    /\ UNCHANGED <<inputVars, pc, thrown, conversationId, dbVars, costVars, upstream,
                   chunksReceived, fullContent, deltasReceived, endPc, assistantMessageId, reqCost,
                   callerClosedAt>>

(***************************************************************************)
(* loadModelRoutingConfig, called again while the request runs: after the  *)
(* awaited select, newConfig is built from the rows and assigned to        *)
(* this.modelRoutingConfig in the same turn of the event loop; when the    *)
(* select fails the table stays.                                           *)
(***************************************************************************)
\* the tables and the timestamp as a refresh finds them
TablesSnapshot ==
    [routing |-> modelRoutingConfig, pricing |-> pricingCache,
     timestamp |-> pricingCacheTimestamp]

\* the table written entry by entry, one row per turn of the event loop
LoadModelRoutingConfigInPlace(dbOk) ==
    /\ dbOk
    /\ \E n \in 1..Len(RefreshedRoutingRows) :
           modelRoutingConfig' =
               [m \in DOMAIN modelRoutingConfig |->
                   IF m = RefreshedRoutingRows[n].model_id
                   THEN BuildRoutingConfig(RefreshedRoutingRows)[m]
                   ELSE modelRoutingConfig[m]]
    /\ failedRefresh' = <<>>
    /\ UNCHANGED <<notRefreshVars, pricingCache, pricingCacheTimestamp, prepared, pc, thrown,
                   conversationId, dbVars, costVars, resVars, streamVars, callerClosedAt>>

LoadModelRoutingConfig(dbOk) ==
    /\ modelRoutingConfig' = IF dbOk THEN BuildRoutingConfig(RefreshedRoutingRows)
                             ELSE modelRoutingConfig
    /\ failedRefresh' = IF dbOk THEN <<>> ELSE <<TablesSnapshot>>
    /\ UNCHANGED <<notRefreshVars, pricingCache, pricingCacheTimestamp, prepared, pc, thrown,
                   conversationId, dbVars, costVars, resVars, streamVars, callerClosedAt>>

\* the timestamp written before the get is awaited
FetchOpenRouterPricingStampsFirst(now, httpOk) ==
    /\ now >= pricingCacheTimestamp
    /\ LET fresh == /\ DOMAIN pricingCache # {}
                     /\ now - pricingCacheTimestamp < PRICING_CACHE_DURATION
       IN  /\ pricingCache' = IF ~fresh /\ httpOk
                              THEN BuildPricingCache(RefreshedPricingModels)
                              ELSE pricingCache
           /\ pricingCacheTimestamp' = IF ~fresh THEN now ELSE pricingCacheTimestamp
           /\ failedRefresh' = IF fresh THEN failedRefresh
                               ELSE IF httpOk THEN <<>> ELSE <<TablesSnapshot>>
    /\ UNCHANGED <<notRefreshVars, modelRoutingConfig, prepared, pc, thrown,
                   conversationId, dbVars, costVars, resVars, streamVars, callerClosedAt>>

(***************************************************************************)
(* fetchOpenRouterPricing at time now: it returns at once while the cache  *)
(* is filled and younger than PRICING_CACHE_DURATION; otherwise, after the *)
(* awaited get, newCache is built and assigned to this.pricingCache and    *)
(* now to this.pricingCacheTimestamp; when the get fails both stay.        *)
(***************************************************************************)
FetchOpenRouterPricing(now, httpOk) ==
    /\ now >= pricingCacheTimestamp
    /\ LET fresh == /\ DOMAIN pricingCache # {}
                     /\ now - pricingCacheTimestamp < PRICING_CACHE_DURATION
       IN  /\ pricingCache' = IF ~fresh /\ httpOk
                              THEN BuildPricingCache(RefreshedPricingModels)
                              ELSE pricingCache
           /\ pricingCacheTimestamp' = IF ~fresh /\ httpOk THEN now
                                       ELSE pricingCacheTimestamp
           /\ failedRefresh' = IF fresh THEN failedRefresh
                               ELSE IF httpOk THEN <<>> ELSE <<TablesSnapshot>>
    /\ UNCHANGED <<notRefreshVars, modelRoutingConfig, prepared, pc, thrown,
                   conversationId, dbVars, costVars, resVars, streamVars, callerClosedAt>>

(***************************************************************************)
(* The caller closes its connection.  handleStreamChatRequest registers no *)
(* listener for it: nothing of the request's state changes.                *)
(***************************************************************************)
CallerDisconnect ==
    /\ pc \in {"connecting", "streaming"}
    /\ callerClosedAt = NULL
    /\ ~writableEnded
    /\ callerClosedAt' = upstream
    /\ UNCHANGED <<inputVars, pc, thrown, conversationId, dbVars, costVars, resVars,
                   streamVars>>

Next ==
    \/ \E dbOk \in BOOLEAN : CheckUserLimits(dbOk)
    \/ \E dbOk \in BOOLEAN : CreateConversation(dbOk)
    \/ \E dbOk \in BOOLEAN : SaveUserMessage(dbOk)
    \/ AxiosPostResolves
    \/ AxiosPostRejects
    \/ \E chunk \in Chunks : OnData(chunk)
    \/ OnEnd
    \/ \E dbOk \in BOOLEAN : SaveAssistantMessage(dbOk)
    \/ \E dbOk \in BOOLEAN : LogUsageInsert(dbOk)
    \/ OnStreamError
    \/ StreamTimeoutFires
    \/ \E k \in 1..MaxChunks : RearmedTimeoutFires(k)
    \/ CallerDisconnect

Spec == Init /\ [][Next]_vars

(***************************************************************************)
(* The relay while the routing table and the pricing cache are refreshed:  *)
(* a request for a model routed to the aggregator, under an aggregator     *)
(* model id or under its own id, admitted by both limits.                  *)
(***************************************************************************)
RefreshRequests ==
    { [conversationId |-> NULL, model |-> <<"claude">>, messages |-> LongChat,
       temperature |-> NULL, top_p |-> NULL],
      [conversationId |-> "conv-1", model |-> <<"anthropic", "/", "opus">>,
       messages |-> ShortChat, temperature |-> NULL, top_p |-> NULL] }

RefreshInit ==
    /\ payload \in RefreshRequests
    /\ pc = "checkUserLimits"
    /\ thrown = NULL
    /\ conversationId = NULL
    /\ upstream = "none"
    /\ chunksReceived = 0
    /\ timers = {}
    /\ fired = <<>>
    /\ fullContent = <<>>
    /\ deltasReceived = <<>>
    /\ endPc = "idle"
    /\ assistantMessageId = NULL
    /\ reqCost = NullCost
    /\ resWrites = <<>>
    /\ writableEnded = FALSE
    /\ callerClosedAt = NULL
    /\ conversations = <<>>
    /\ messages = <<>>
    /\ saveAttempts = [user |-> 0, assistant |-> 0]
    /\ usageLogs = <<>>
    /\ usageAttempts = 0
    /\ dailyCount = 0
    /\ accumulatedCost = 0
    /\ costAtStart = accumulatedCost
    /\ addCostCalls = <<>>
    /\ modelRoutingConfig = RoutingTable
    /\ pricingCache = PricingTable
    /\ aiProvidersConfig = DirectProviders
    /\ openRouterApiKey = OpenRouterKey
    /\ prepared = NotPrepared
    /\ ClientInit
    /\ UploadInit
    /\ RestInit

\* the upstream chunks tried here: one and two words of content
RefreshChunks == { <<"a">>, <<"a", "_b">> }

RefreshNext ==
    \/ \E dbOk \in BOOLEAN : CheckUserLimits(dbOk)
    \/ \E dbOk \in BOOLEAN : CreateConversation(dbOk)
    \/ \E dbOk \in BOOLEAN : SaveUserMessage(dbOk)
    \/ AxiosPostResolves
    \/ AxiosPostRejects
    \/ \E chunk \in RefreshChunks : OnData(chunk)
    \/ OnEnd
    \/ \E dbOk \in BOOLEAN : SaveAssistantMessage(dbOk)
    \/ \E dbOk \in BOOLEAN : LogUsageInsert(dbOk)
    \/ OnStreamError
    \/ StreamTimeoutFires
    \/ \E k \in 1..MaxChunks : RearmedTimeoutFires(k)
    \/ CallerDisconnect
    \/ \E dbOk \in BOOLEAN : LoadModelRoutingConfig(dbOk)
    \/ \E now \in 0..MaxNow, httpOk \in BOOLEAN : FetchOpenRouterPricing(now, httpOk)

RefreshSpec == RefreshInit /\ [][RefreshNext]_vars

(***************************************************************************)
(* The relay under fair scheduling of what the node runtime itself drives: *)
(* an armed timer expires, and a call to the persistence store settles.    *)
(* Nothing is assumed about the upstream: it may never answer, never send  *)
(* a chunk, never end.                                                     *)
(***************************************************************************)
FairSpec ==
    /\ Spec
    /\ WF_vars(StreamTimeoutFires)
    /\ WF_vars(\E k \in 1..MaxChunks : RearmedTimeoutFires(k))
    /\ WF_vars(\E dbOk \in BOOLEAN : SaveAssistantMessage(dbOk))
    /\ WF_vars(\E dbOk \in BOOLEAN : LogUsageInsert(dbOk))

(***************************************************************************)
(* prepareAIRequest by itself: one call, on a validated payload, under     *)
(* each configuration of the routing table, of the aggregator's key and    *)
(* of the direct providers.                                                *)
(***************************************************************************)
\* system, user and assistant messages without attachments
PlainChat ==
    << [role |-> "system", content |-> <<"s">>, attachments |-> <<>>],
       [role |-> "user", content |-> <<"q", "1">>, attachments |-> <<>>],
       [role |-> "assistant", content |-> <<"a", "1">>, attachments |-> <<>>],
       [role |-> "user", content |-> <<"q", "2">>, attachments |-> <<>>] >>

\* two messages with attachments around one without
MixedChat ==
    << [role |-> "user", content |-> <<"q", "1">>,
        attachments |-> <<Image, Markdown, Pdf>>],
       [role |-> "assistant", content |-> <<"a", "1">>, attachments |-> <<>>],
       [role |-> "user", content |-> <<"q", "2">>, attachments |-> <<Markdown>>] >>

\* a system message first, the attachments in another order
PdfFirstChat ==
    << [role |-> "system", content |-> <<"s">>, attachments |-> <<>>],
       [role |-> "user", content |-> <<"q", "1">>,
        attachments |-> <<Pdf, Markdown, Image>>] >>

PrepModels ==
    {<<"gpt">>, <<"gemini">>, <<"claude">>, <<"anthropic", "/", "opus">>, <<"unknown">>}

\* z.number().min(0).max(2) / min(0).max(1), null or left out
Temperatures == {NULL, "0", "0.7"}

TopPs == {NULL, "0.9"}

PrepRequests ==
    [conversationId : {NULL}, model : PrepModels,
     messages : {PlainChat, MixedChat, PdfFirstChat},
     temperature : Temperatures, top_p : TopPs]

\* routing entries: flagged with an anthropic, another or no aggregator id,
\* with an id that holds 'anthropic/' past its start, and not flagged
RouteEntries ==
    { [useOpenRouter |-> TRUE, openRouterModelId |-> <<"anthropic", "/", "claude">>],
      [useOpenRouter |-> TRUE, openRouterModelId |-> <<"openai", "/", "gpt">>],
      [useOpenRouter |-> TRUE, openRouterModelId |-> <<>>],
      [useOpenRouter |-> TRUE, openRouterModelId |-> <<"x", "/", "anthropic", "/", "y">>],
      [useOpenRouter |-> FALSE, openRouterModelId |-> <<"anthropic", "/", "claude">>] }

\* the routing table has no entry for the model, or one
RoutingTablesFor(model) ==
    {EmptyObject} \cup {[m \in {model} |-> e] : e \in RouteEntries}

\* direct providers: with their keys and one more non-gemini provider,
\* without keys, and none
ProviderTables ==
    { [m \in DOMAIN DirectProviders \cup {<<"claude">>} |->
          IF m \in DOMAIN DirectProviders THEN DirectProviders[m]
          ELSE [provider |-> "anthropic", url |-> "https://anthropic",
                apiKey |-> "anthropic-key"]],
      [m \in DOMAIN DirectProviders |-> [DirectProviders[m] EXCEPT !.apiKey = NULL]],
      EmptyObject }

PrepInit ==
    /\ payload \in PrepRequests
    /\ modelRoutingConfig \in RoutingTablesFor(payload.model)
    /\ aiProvidersConfig \in ProviderTables
    /\ openRouterApiKey \in {OpenRouterKey, NULL}
    /\ prepared = NotPrepared
    /\ pc = "prepareAIRequest"
    /\ thrown = NULL
    /\ conversationId = NULL
    /\ upstream = "none"
    /\ chunksReceived = 0
    /\ timers = {}
    /\ fired = <<>>
    /\ fullContent = <<>>
    /\ deltasReceived = <<>>
    /\ endPc = "idle"
    /\ assistantMessageId = NULL
    /\ reqCost = NullCost
    /\ resWrites = <<>>
    /\ writableEnded = FALSE
    /\ callerClosedAt = NULL
    /\ conversations = <<>>
    /\ messages = <<>>
    /\ saveAttempts = [user |-> 0, assistant |-> 0]
    /\ usageLogs = <<>>
    /\ usageAttempts = 0
    /\ dailyCount = 0
    /\ accumulatedCost = 0
    /\ costAtStart = 0
    /\ addCostCalls = <<>>
    /\ pricingCache = PricingTable
    /\ ClientInit
    /\ UploadInit
    /\ RestInit

\* this.prepareAIRequest(payload, true)
PrepareAIRequestCall ==
    /\ pc = "prepareAIRequest"
    /\ ~prepared.called
    /\ prepared' = Prepared(PrepareAIRequest(modelRoutingConfig, openRouterApiKey,
                                             aiProvidersConfig, payload, TRUE))
    /\ UNCHANGED <<payload, dailyCount, costAtStart, modelRoutingConfig, pricingCache,
                   aiProvidersConfig, openRouterApiKey, pc, thrown, conversationId,
                   dbVars, costVars, resVars, streamVars, callerClosedAt,
                   clientVars, uploadVars, restVars>>

PrepNext == PrepareAIRequestCall

PrepSpec == PrepInit /\ [][PrepNext]_vars

(***************************************************************************)
(* The browser: sendAIRequestStreaming.                                    *)
(*                                                                         *)
(* A line of the response body is what line 218-222 look at: does it start *)
(* with 'data: ', does the rest parse as JSON, and the parsed object's     *)
(* type, content and id.                                                   *)
(***************************************************************************)
MaxReads == 2

ContentLine(c) ==
    [data |-> TRUE, json |-> TRUE, type |-> "content", content |-> c, id |-> ""]

CompleteLine(id) ==
    [data |-> TRUE, json |-> TRUE, type |-> "complete", content |-> "", id |-> id]

ErrorLine ==
    [data |-> TRUE, json |-> TRUE, type |-> "error", content |-> "", id |-> ""]

\* an event of a type the protocol does not define, with fields named as
\* those of the defined events
UnknownLine ==
    [data |-> TRUE, json |-> TRUE, type |-> "ping", content |-> "zz", id |-> "msg-9"]

\* 'data: ' followed by text that is not JSON
UnparseableLine ==
    [data |-> TRUE, json |-> FALSE, type |-> "", content |-> "", id |-> ""]

\* a line that does not start with 'data: '
CommentLine ==
    [data |-> FALSE, json |-> FALSE, type |-> "", content |-> "", id |-> ""]

\* what one reader.read() can return: the lines of the decoded chunk
ReadChunks ==
    { <<ContentLine("a")>>,
      <<ContentLine("b"), CompleteLine("msg-1")>>,
      <<CompleteLine("msg-1")>>,
      <<UnknownLine>>,
      <<UnknownLine, ContentLine("b")>>,
      <<ContentLine("a"), UnknownLine, CompleteLine("msg-1")>>,
      <<ErrorLine>>,
      <<ContentLine("a"), ErrorLine, ContentLine("b")>>,
      <<UnparseableLine, ContentLine("a")>>,
      <<CommentLine, UnknownLine>> }

\* the locals of the read loop, and the actualOnChunk calls made
ReaderState(content, id, err) ==
    [fullContent |-> content, messageId |-> id, errorPayload |-> err, chunks |-> <<>>]

\* an event of an undefined type ends the loop like an error event
ProcessLineUnknownIsError(line, st) ==
    IF ~line.data \/ ~line.json
    THEN st
    ELSE IF line.type = "content"
    THEN [st EXCEPT !.fullContent = Append(@, line.content),
                    !.chunks = Append(@, line.content)]
    ELSE IF line.type = "complete"
    THEN [st EXCEPT !.messageId = line.id]
    ELSE [st EXCEPT !.errorPayload = TRUE]

\* the body of the for loop, lines 218-238
ProcessLine(line, st) ==
    IF ~line.data
    THEN st
    ELSE IF ~line.json
    THEN st
    ELSE IF line.type = "error"
    THEN [st EXCEPT !.errorPayload = TRUE]
    ELSE IF line.type = "content"
    THEN [st EXCEPT !.fullContent = Append(@, line.content),
                    !.chunks = Append(@, line.content)]
    ELSE IF line.type = "complete"
    THEN [st EXCEPT !.messageId = line.id]
    ELSE st

\* for (const line of lines) { ... break on an error event ... }
RECURSIVE ProcessLines(_, _)
ProcessLines(lines, st) ==
    IF lines = <<>> \/ st.errorPayload
    THEN st
    ELSE ProcessLines(Tail(lines), ProcessLine(Head(lines), st))

OnChunkCall(c) == [cb |-> "onChunk", content |-> <<c>>, id |-> "", code |-> ""]

OnCompleteCall(content, id) ==
    [cb |-> "onComplete", content |-> content, id |-> id, code |-> ""]

OnErrorCall(code) == [cb |-> "onError", content |-> <<>>, id |-> "", code |-> code]

OnChunkCalls(chunks) == [i \in DOMAIN chunks |-> OnChunkCall(chunks[i])]

relayVars == <<payload, pc, thrown, conversationId, upstream, chunksReceived, timers,
               fired, fullContent, deltasReceived, endPc, assistantMessageId, reqCost,
               resWrites, writableEnded, callerClosedAt, conversations, messages,
               saveAttempts, usageLogs, usageAttempts, dailyCount, accumulatedCost,
               costAtStart, addCostCalls, modelRoutingConfig, pricingCache,
               aiProvidersConfig, openRouterApiKey, prepared>>

\* a callback is called and sendAIRequestStreaming returns
ClientReturns(calls) ==
    /\ callbacks' = callbacks \o calls
    /\ clientPc' = "returned"

(***************************************************************************)
(* await supabase.auth.getSession(), lines 139-144                         *)
(***************************************************************************)
GetSession(hasSession) ==
    /\ clientPc = "getSession"
    /\ IF hasSession
       THEN clientPc' = "fetch" /\ UNCHANGED callbacks
       ELSE ClientReturns(<<OnErrorCall("AUTH_REQUIRED")>>)
    /\ UNCHANGED <<relayVars, restVars, uploadVars, readsDone, clientFullContent, messageId,
                   errorPayload>>

(***************************************************************************)
(* await fetch(...), lines 167-207: the request is rejected, or answered   *)
(* with a non-OK status, or without a body, or with a body to read.        *)
(***************************************************************************)
FetchSettles(outcome) ==
    /\ clientPc = "fetch"
    /\ CASE outcome = "rejected" -> ClientReturns(<<OnErrorCall("NETWORK_ERROR")>>)
         [] outcome = "notOk"    -> ClientReturns(<<OnErrorCall("HTTP_ERROR")>>)
         [] outcome = "noBody"   -> ClientReturns(<<OnErrorCall("NETWORK_ERROR")>>)
         [] outcome = "body"     -> clientPc' = "reading" /\ UNCHANGED callbacks
    /\ UNCHANGED <<relayVars, restVars, uploadVars, readsDone, clientFullContent, messageId,
                   errorPayload>>

\* after an error event the loop goes on reading and nothing is thrown
ReaderReadIgnoresErrorPayload(lines) ==
    /\ clientPc = "reading"
    /\ Len(readsDone) < MaxReads
    /\ LET st == ProcessLines(lines, ReaderState(clientFullContent, messageId, FALSE))
       IN  /\ readsDone' = Append(readsDone, lines)
           /\ clientFullContent' = st.fullContent
           /\ messageId' = st.messageId
           /\ errorPayload' = (errorPayload \/ st.errorPayload)
           /\ callbacks' = callbacks \o OnChunkCalls(st.chunks)
           /\ clientPc' = "reading"
    /\ UNCHANGED <<relayVars, restVars, uploadVars>>

(***************************************************************************)
(* await reader.read() returns a chunk, lines 211-246: its lines are       *)
(* processed; after an error event the loop is left, APIError is thrown    *)
(* and the catch block calls actualOnError.                                *)
(***************************************************************************)
ProcessRead(lines) ==
    /\ clientPc = "reading"
    /\ Len(readsDone) < MaxReads
    /\ LET st == ProcessLines(lines, ReaderState(clientFullContent, messageId, errorPayload))
       IN  /\ readsDone' = Append(readsDone, lines)
           /\ clientFullContent' = st.fullContent
           /\ messageId' = st.messageId
           /\ errorPayload' = st.errorPayload
           /\ IF st.errorPayload
              THEN ClientReturns(OnChunkCalls(st.chunks) \o <<OnErrorCall("STREAM_ERROR")>>)
              ELSE /\ callbacks' = callbacks \o OnChunkCalls(st.chunks)
                   /\ clientPc' = "reading"

\* a read of a body whose lines arrive whole
ReaderRead(lines) ==
    /\ ProcessRead(lines)
    /\ UNCHANGED <<relayVars, restVars, uploadVars>>

(***************************************************************************)
(* await reader.read() returns done, lines 212, 244-260                    *)
(***************************************************************************)
ReaderDone ==
    /\ clientPc = "reading"
    /\ IF errorPayload
       THEN ClientReturns(<<OnErrorCall("STREAM_ERROR")>>)
       ELSE ClientReturns(<<OnCompleteCall(clientFullContent, messageId)>>)
    /\ UNCHANGED <<relayVars, restVars, uploadVars, readsDone, clientFullContent, messageId,
                   errorPayload>>

(***************************************************************************)
(* await reader.read() rejects, lines 261-268                              *)
(***************************************************************************)
ReaderFails ==
    /\ clientPc = "reading"
    /\ ClientReturns(<<OnErrorCall("NETWORK_ERROR")>>)
    /\ UNCHANGED <<relayVars, restVars, uploadVars, readsDone, clientFullContent, messageId,
                   errorPayload>>

ClientSpecInit == RefreshInit /\ payload.conversationId = NULL

ClientNext ==
    \/ \E hasSession \in BOOLEAN : GetSession(hasSession)
    \/ \E outcome \in {"rejected", "notOk", "noBody", "body"} : FetchSettles(outcome)
    \/ \E lines \in ReadChunks : ReaderRead(lines)
    \/ ReaderDone
    \/ ReaderFails

ClientSpec == ClientSpecInit /\ [][ClientNext]_vars

(***************************************************************************)
(* The response body as text.  The server writes each event as             *)
(* 'data: ' + JSON.stringify(event) + '\n\n'; the text is a sequence of    *)
(* tokens [k, v]: the prefix, the braces, one token per field, the         *)
(* newlines.  reader.read() returns the next piece of the text, cut where  *)
(* the transport cut it.                                                   *)
(***************************************************************************)
Prefix == [k |-> "prefix", v |-> "data: "]

OpenBrace == [k |-> "punct", v |-> "{"]

CloseBrace == [k |-> "punct", v |-> "}"]

Newline == [k |-> "punct", v |-> "\n"]

Field(k, v) == [k |-> k, v |-> v]

ContentFields(c) == <<Field("type", "content"), Field("content", c)>>

CompleteFields(id) == <<Field("type", "complete"), Field("id", id)>>

\* 'data: ' + JSON.stringify(event) + '\n\n'
EventText(event) == <<Prefix, OpenBrace>> \o event \o <<CloseBrace, Newline, Newline>>

RECURSIVE BodyText(_)
BodyText(events) ==
    IF events = <<>> THEN <<>> ELSE EventText(Head(events)) \o BodyText(Tail(events))

\* what the server sends for a request that succeeds
ServerStreams ==
    { <<ContentFields("a"), CompleteFields("msg-1")>>,
      <<ContentFields("a"), ContentFields("b"), CompleteFields("msg-1")>>,
      <<ContentFields("b"), ContentFields("a"), ContentFields("b"), CompleteFields("msg-1")>> }

\* chunk.split('\n')
RECURSIVE SplitLines(_, _)
SplitLines(text, line) ==
    IF text = <<>> THEN <<line>>
    ELSE IF Head(text) = Newline
    THEN <<line>> \o SplitLines(Tail(text), <<>>)
    ELSE SplitLines(Tail(text), Append(line, Head(text)))

\* JSON.parse succeeds on the text of one object
IsJson(text) ==
    /\ Len(text) >= 2
    /\ text[1] = OpenBrace
    /\ text[Len(text)] = CloseBrace
    /\ \A i \in 2..(Len(text) - 1) : text[i].k \notin {"prefix", "punct"}

\* parsed[key], '' when the object has no such field
FieldOf(text, key) ==
    LET at == {i \in DOMAIN text : text[i].k = key}
    IN  IF at = {} THEN "" ELSE text[CHOOSE i \in at : \A j \in at : j <= i].v

\* a line as the read loop sees it: line.startsWith('data: '),
\* JSON.parse(line.slice(6)), parsed.type, parsed.content, parsed.id
ParseLine(line) ==
    LET data == line[1] = Prefix
        rest == Tail(line)
        json == data /\ IsJson(rest)
    IN  [data |-> data, json |-> json,
         type |-> IF json THEN FieldOf(rest, "type") ELSE "",
         content |-> IF json THEN FieldOf(rest, "content") ELSE "",
         id |-> IF json THEN FieldOf(rest, "id") ELSE ""]

\* every line of the chunk is taken as a whole line
ParseChunk(text) ==
    LET lines == SelectSeq(SplitLines(text, <<>>), LAMBDA l : l # <<>>)
    IN  [i \in DOMAIN lines |-> ParseLine(lines[i])]

(***************************************************************************)
(* await fetch(...) resolves with a 200 response whose body will carry the *)
(* given events                                                            *)
(***************************************************************************)
FetchBody(events) ==
    /\ clientPc = "fetch"
    /\ clientPc' = "reading"
    /\ responseBody' = [sent |-> events, unread |-> BodyText(events)]
    /\ UNCHANGED <<relayVars, uploadVars, storeVars, authVars, quotaVars, refreshVars, readsDone,
                   callbacks, clientFullContent, messageId, errorPayload>>

(***************************************************************************)
(* await reader.read() returns the next n tokens of the body, lines        *)
(* 211-246: the chunk is split at the newlines and every piece is handled  *)
(* as a line; nothing is kept for the next read.                           *)
(***************************************************************************)
ReadSplit(n) ==
    /\ responseBody.unread # <<>>
    /\ n \in 1..Len(responseBody.unread)
    /\ ProcessRead(ParseChunk(SubSeq(responseBody.unread, 1, n)))
    /\ responseBody' = [responseBody EXCEPT
           !.unread = SubSeq(responseBody.unread, n + 1, Len(responseBody.unread))]
    /\ UNCHANGED <<relayVars, uploadVars, storeVars, authVars, quotaVars, refreshVars>>

\* the body was read to its end: reader.read() returns done
BodyEnds ==
    /\ responseBody.sent # <<>>
    /\ responseBody.unread = <<>>
    /\ ReaderDone

SplitNext ==
    \/ \E hasSession \in BOOLEAN : GetSession(hasSession)
    \/ \E events \in ServerStreams : FetchBody(events)
    \/ \E n \in 1..Len(responseBody.unread) : ReadSplit(n)
    \/ BodyEnds

SplitSpec == ClientSpecInit /\ [][SplitNext]_vars


(***************************************************************************)
(* The browser: the pending attachments of the chat input.                 *)
(***************************************************************************)
MaxHandlerCalls == 2

\* process-files.ts
MAX_FILE_SIZE == 30 * 1024 * 1024

MAX_FILES == 10

\* the request validation schema: attachmentSchema.size and
\* chatRequestSchema.messages[].attachments
MaxAttachmentSize == 20 * 1024 * 1024

MaxAttachmentsPerMessage == 5

ACCEPTED_TYPES ==
    [mime \in {"image/jpeg", "image/png", "application/pdf", "text/markdown"} |->
        CASE mime = "image/jpeg"      -> [type |-> "image", extensions |-> {".jpg", ".jpeg"}]
          [] mime = "image/png"       -> [type |-> "image", extensions |-> {".png"}]
          [] mime = "application/pdf" -> [type |-> "pdf", extensions |-> {".pdf"}]
          [] mime = "text/markdown"   -> [type |-> "markdown", extensions |-> {".md"}]]

\* a File: ext is '.' + file.name.split('.').pop().toLowerCase()
SmallImage == [name |-> "a.png", ext |-> ".png", type |-> "image/png", size |-> 1024]

\* larger than the schema allows, not larger than MAX_FILE_SIZE
LargePdf ==
    [name |-> "b.pdf", ext |-> ".pdf", type |-> "application/pdf",
     size |-> MaxAttachmentSize + 1]

HugePdf ==
    [name |-> "c.pdf", ext |-> ".pdf", type |-> "application/pdf",
     size |-> MAX_FILE_SIZE + 1]

Executable ==
    [name |-> "d.exe", ext |-> ".exe", type |-> "application/x-msdownload", size |-> 1024]

\* a markdown file the browser reports without a MIME type
NotesMd == [name |-> "e.md", ext |-> ".md", type |-> "", size |-> 1024]

\* the files of one selection or drop
FileBatches ==
    { <<SmallImage>>,
      <<LargePdf, HugePdf, Executable, NotesMd>>,
      [i \in 1..(MaxAttachmentsPerMessage + 1) |-> SmallImage],
      [i \in 1..(MAX_FILES + 1) |-> SmallImage] }

NoTypeConfig == [found |-> FALSE, type |-> "", mimeType |-> ""]

GetFileTypeConfig(file) ==
    IF file.type \in DOMAIN ACCEPTED_TYPES
    THEN [found |-> TRUE, type |-> ACCEPTED_TYPES[file.type].type, mimeType |-> file.type]
    ELSE LET fallback == {mime \in DOMAIN ACCEPTED_TYPES :
                              file.ext \in ACCEPTED_TYPES[mime].extensions}
         IN  IF fallback # {}
             THEN LET mime == CHOOSE m \in fallback : TRUE
                  IN  [found |-> TRUE, type |-> ACCEPTED_TYPES[mime].type, mimeType |-> mime]
             ELSE NoTypeConfig

\* the loop of processFiles: files too large or of an unsupported type are
\* skipped, the others are read
RECURSIVE ReadFiles(_)
ReadFiles(files) ==
    IF files = <<>> THEN <<>>
    ELSE LET file == Head(files)
             typeConfig == GetFileTypeConfig(file)
         IN  IF file.size > MAX_FILE_SIZE \/ ~typeConfig.found
             THEN ReadFiles(Tail(files))
             ELSE <<[type |-> typeConfig.type, name |-> file.name,
                     mime_type |-> typeConfig.mimeType, size |-> file.size,
                     data |-> IF typeConfig.type = "markdown" THEN "text" ELSE "base64"]>>
                  \o ReadFiles(Tail(files))

ProcessFiles(files, currentCount) ==
    LET remaining == MAX_FILES - currentCount
    IN  IF remaining <= 0 THEN <<>>
        ELSE ReadFiles(SubSeq(files, 1, IF Len(files) < remaining
                                        THEN Len(files) ELSE remaining))

RemoveAt(seq, index) ==
    [i \in 1..(Len(seq) - 1) |-> IF i < index THEN seq[i] ELSE seq[i + 1]]

(***************************************************************************)
(* FileUpload.handleFileSelect up to its await: processFiles is called     *)
(* with the length of the attachments of this render.  The input is        *)
(* disabled once MAX_FILES attachments are pending.                        *)
(***************************************************************************)
HandleFileSelect(files) ==
    /\ handlerCalls < MaxHandlerCalls
    /\ Len(pendingAttachments) < MAX_FILES
    /\ fileReads' = Append(fileReads,
           [handler |-> "select", attachments |-> pendingAttachments,
            newAttachments |-> ProcessFiles(files, Len(pendingAttachments))])
    /\ handlerCalls' = handlerCalls + 1
    /\ UNCHANGED <<relayVars, restVars, clientVars, pendingAttachments, sentMessage>>

(***************************************************************************)
(* ChatWindow.handleDrop up to its await                                   *)
(***************************************************************************)
HandleDrop(files) ==
    /\ handlerCalls < MaxHandlerCalls
    /\ fileReads' = Append(fileReads,
           [handler |-> "drop", attachments |-> <<>>,
            newAttachments |-> ProcessFiles(files, Len(pendingAttachments))])
    /\ handlerCalls' = handlerCalls + 1
    /\ UNCHANGED <<relayVars, restVars, clientVars, pendingAttachments, sentMessage>>

(***************************************************************************)
(* The file reads of a processFiles call settle and its caller goes on:    *)
(* handleFileSelect calls onChange([...attachments, ...newAttachments])    *)
(* with the attachments of its render, handleDrop calls                    *)
(* setAttachments(prev => [...prev, ...newAttachments]).  When a read      *)
(* failed processFiles rejects and nothing is set.                         *)
(***************************************************************************)
FileReadsSettle(i, readOk) ==
    /\ i \in DOMAIN fileReads
    /\ fileReads' = RemoveAt(fileReads, i)
    /\ IF readOk /\ fileReads[i].newAttachments # <<>>
       THEN pendingAttachments' =
                IF fileReads[i].handler = "select"
                THEN fileReads[i].attachments \o fileReads[i].newAttachments
                ELSE pendingAttachments \o fileReads[i].newAttachments
       ELSE UNCHANGED pendingAttachments
    /\ UNCHANGED <<relayVars, restVars, clientVars, handlerCalls, sentMessage>>

(***************************************************************************)
(* FileUpload.removeAttachment                                             *)
(***************************************************************************)
RemoveAttachment(index) ==
    /\ index \in DOMAIN pendingAttachments
    /\ pendingAttachments' = RemoveAt(pendingAttachments, index)
    /\ UNCHANGED <<relayVars, restVars, clientVars, fileReads, handlerCalls, sentMessage>>

(***************************************************************************)
(* ChatInputForm.handleFinish: the pending attachments go with the message *)
(***************************************************************************)
HandleFinish ==
    /\ ~sentMessage.sent
    /\ sentMessage' = [sent |-> TRUE, attachments |-> pendingAttachments]
    /\ pendingAttachments' = <<>>
    /\ UNCHANGED <<relayVars, restVars, clientVars, fileReads, handlerCalls>>

UploadSpecInit == RefreshInit /\ payload.conversationId = NULL

UploadNext ==
    \/ \E files \in FileBatches : HandleFileSelect(files)
    \/ \E files \in FileBatches : HandleDrop(files)
    \/ \E i \in 1..MaxHandlerCalls, readOk \in BOOLEAN : FileReadsSettle(i, readOk)
    \/ \E index \in DOMAIN pendingAttachments : RemoveAttachment(index)
    \/ HandleFinish

UploadSpec == UploadSpecInit /\ [][UploadNext]_vars


(***************************************************************************)
(* The browser: useChatStore.  A store method runs to its next await in    *)
(* one step; what it awaits settles in a later step.                       *)
(***************************************************************************)
MaxFetches == 3

MaxStreamed == 1

notStoreVars == <<relayVars, clientVars, uploadVars, responseBody, authVars, quotaVars,
                  refreshVars>>

\* the store fields a method can set
StoreState(msgs, active, cache, busy, waiting) ==
    [messages |-> msgs, activeConversation |-> active, messagesCache |-> cache,
     loading |-> busy, fetches |-> waiting]

CurrentStore ==
    StoreState(storeMessages, activeConversation, messagesCache, loading, fetches)

Install(st) ==
    /\ storeMessages' = st.messages
    /\ activeConversation' = st.activeConversation
    /\ messagesCache' = st.messagesCache
    /\ loading' = st.loading
    /\ fetches' = st.fetches

EmptyCache == [conv \in AllConversations |-> <<>>]

CachedFor(st, conv) ==
    IF conv \in AllConversations THEN st.messagesCache[conv] ELSE <<>>

\* fetchMessages up to await getMessages: the cached messages are shown,
\* loading is set
FetchMessagesCall(st, conv, call) ==
    LET cached == CachedFor(st, conv)
    IN  [st EXCEPT !.messages = IF cached # <<>> THEN cached ELSE @,
                   !.loading = TRUE,
                   !.fetches = Append(@, [kind |-> "messages", conversation |-> conv,
                                          cached |-> cached # <<>>, awaitedBy |-> call])]

\* fetchConversations up to await getConversations
FetchConversationsCall(st) ==
    [st EXCEPT !.loading = TRUE,
               !.fetches = Append(@, [kind |-> "conversations", conversation |-> NULL,
                                      cached |-> FALSE, awaitedBy |-> 0])]

\* setActiveConversation(conversationId)
SetActiveConversationCall(st, conv) ==
    IF st.activeConversation = conv
    THEN st
    ELSE LET switched == [st EXCEPT !.activeConversation = conv, !.messages = <<>>]
         IN  IF conv # NULL
             THEN FetchMessagesCall(switched, conv, 0)
             ELSE [switched EXCEPT !.messagesCache = EmptyCache]

(***************************************************************************)
(* The user opens a conversation or a new chat: setActiveConversation      *)
(***************************************************************************)
SetActiveConversation(conv) ==
    /\ Len(fetches) < MaxFetches
    /\ activeConversation # conv
    /\ Install(SetActiveConversationCall(CurrentStore, conv))
    /\ UNCHANGED <<notStoreVars, sends, errorHandlerCalls, db>>

\* the sendMessage call that awaits the fetch returns: finally { loading: false }
Resume(call) ==
    IF call = 0
    THEN UNCHANGED sends
    ELSE sends' = [sends EXCEPT ![call].pc = "returned"]

(***************************************************************************)
(* await getMessages(conversationId) resolves, lines 363-367               *)
(***************************************************************************)
FetchMessagesResolves(i) ==
    /\ i \in DOMAIN fetches
    /\ fetches[i].kind = "messages"
    /\ LET conv == fetches[i].conversation
           data == IF conv \in AllConversations THEN db[conv] ELSE <<>>
       IN  /\ storeMessages' = data
           /\ messagesCache' = IF conv \in AllConversations
                               THEN [messagesCache EXCEPT ![conv] = data]
                               ELSE messagesCache
    /\ loading' = FALSE
    /\ fetches' = RemoveAt(fetches, i)
    /\ Resume(fetches[i].awaitedBy)
    /\ UNCHANGED <<notStoreVars, activeConversation, errorHandlerCalls, db>>

(***************************************************************************)
(* await getMessages(conversationId) rejects, lines 368-375                *)
(***************************************************************************)
FetchMessagesRejects(i) ==
    /\ i \in DOMAIN fetches
    /\ fetches[i].kind = "messages"
    /\ storeMessages' = IF fetches[i].cached THEN storeMessages ELSE <<>>
    /\ loading' = FALSE
    /\ fetches' = RemoveAt(fetches, i)
    /\ Resume(fetches[i].awaitedBy)
    /\ UNCHANGED <<notStoreVars, activeConversation, messagesCache, errorHandlerCalls, db>>

(***************************************************************************)
(* await getConversations(userId) settles: loading is reset either way     *)
(***************************************************************************)
FetchConversationsSettles(i) ==
    /\ i \in DOMAIN fetches
    /\ fetches[i].kind = "conversations"
    /\ loading' = FALSE
    /\ fetches' = RemoveAt(fetches, i)
    /\ UNCHANGED <<notStoreVars, storeMessages, activeConversation, messagesCache, sends,
                   errorHandlerCalls, db>>

FetchInit == ClientSpecInit

FetchNext ==
    \/ \E conv \in StoredConversations \cup {NULL} : SetActiveConversation(conv)
    \/ \E i \in 1..MaxFetches : FetchMessagesResolves(i)
    \/ \E i \in 1..MaxFetches : FetchMessagesRejects(i)

FetchSpec == FetchInit /\ [][FetchNext]_vars

OptimisticUserId(r) == MessageIdOf("optimistic-user", r)

OptimisticAssistantId(r) == MessageIdOf("optimistic-assistant", r)

\* activeConversation || 'optimistic-conv-id'
OptimisticConversation(conv) == IF conv = NULL THEN "optimistic-conv-id" ELSE conv

(***************************************************************************)
(* sendMessage up to the await of the streaming promise, lines 450-600:    *)
(* loading is set and the two optimistic messages are appended.            *)
(***************************************************************************)
SendMessage(r) ==
    /\ sends[r].pc = "idle"
    /\ \A q \in SendIds : q < r => sends[q].pc # "idle"
    /\ loading' = TRUE
    /\ storeMessages' = storeMessages \o
          << StoreMessage(OptimisticUserId(r), OptimisticConversation(activeConversation),
                          "user", <<Piece("question", 0)>>),
             StoreMessage(OptimisticAssistantId(r), OptimisticConversation(activeConversation),
                          "assistant", <<>>) >>
    /\ sends' = [sends EXCEPT ![r] = [pc |-> "streaming", conversation |-> activeConversation,
                                      streamed |-> 0]]
    /\ UNCHANGED <<notStoreVars, activeConversation, messagesCache, fetches,
                   errorHandlerCalls, db>>

\* the set() of onChunk, lines 606-621: the chunk is appended to the last
\* message if its role is assistant
AppendChunk(msgs, r) ==
    IF msgs # <<>> /\ msgs[Len(msgs)].role = "assistant"
    THEN [msgs EXCEPT ![Len(msgs)].content = Append(@, Piece("x", r))]
    ELSE msgs

(***************************************************************************)
(* onChunk of the r-th call                                                *)
(***************************************************************************)
OnChunk(r) ==
    /\ sends[r].pc = "streaming"
    /\ sends[r].streamed < MaxStreamed
    /\ storeMessages' = AppendChunk(storeMessages, r)
    /\ sends' = [sends EXCEPT ![r].streamed = @ + 1]
    /\ UNCHANGED <<notStoreVars, activeConversation, messagesCache, loading, fetches,
                   errorHandlerCalls, db>>

\* the conversation id of the complete event
ResponseId(r) ==
    IF sends[r].conversation = NULL THEN NewConversationOf(r) ELSE sends[r].conversation

(***************************************************************************)
(* onComplete resolves the promise and sendMessage runs to its next await, *)
(* lines 624-677: for a new chat setActiveConversation(id) and             *)
(* fetchConversations, then fetchMessages(get().activeConversation).  The  *)
(* server saved the two messages before it sent the complete event.        *)
(***************************************************************************)
StreamCompletes(r) ==
    /\ sends[r].pc = "streaming"
    /\ db' = [db EXCEPT ![ResponseId(r)] = @ \o
                 << StoreMessage(MessageIdOf("saved-user", r), ResponseId(r), "user",
                                 <<Piece("question", 0)>>),
                    StoreMessage(MessageIdOf("saved-assistant", r), ResponseId(r),
                                 "assistant", <<Piece("answer", 0)>>) >>]
    /\ LET opened == IF sends[r].conversation = NULL
                     THEN FetchConversationsCall(
                              SetActiveConversationCall(CurrentStore, ResponseId(r)))
                     ELSE CurrentStore
       IN  Install(FetchMessagesCall(opened, opened.activeConversation, r))
    /\ sends' = [sends EXCEPT ![r].pc = "refetching"]
    /\ UNCHANGED <<notStoreVars, errorHandlerCalls>>

\* the catch block removes every optimistic message of the store
RemoveOptimisticOfAnyCall(msgs, r) ==
    SelectSeq(msgs, LAMBDA m : m.id.of \notin {"optimistic-user", "optimistic-assistant"})

\* the set() of the catch block, lines 687-691
RemoveOptimistic(msgs, r) ==
    SelectSeq(msgs, LAMBDA m : m.id # OptimisticUserId(r) /\ m.id # OptimisticAssistantId(r))

(***************************************************************************)
(* onError rejects the promise: catch and finally, lines 683-728           *)
(***************************************************************************)
StreamFails(r) ==
    /\ sends[r].pc = "streaming"
    /\ storeMessages' = RemoveOptimistic(storeMessages, r)
    /\ errorHandlerCalls' = Append(errorHandlerCalls, r)
    /\ loading' = FALSE
    /\ sends' = [sends EXCEPT ![r].pc = "failed"]
    /\ UNCHANGED <<notStoreVars, activeConversation, messagesCache, fetches, db>>

StoreConversations == {"conv-A", NULL}

StoreNext ==
    \/ \E conv \in StoreConversations : fetches = <<>> /\ SetActiveConversation(conv)
    \/ \E i \in DOMAIN fetches : FetchMessagesResolves(i)
    \/ \E i \in DOMAIN fetches : FetchMessagesRejects(i)
    \/ \E i \in DOMAIN fetches : FetchConversationsSettles(i)
    \/ \E r \in SendIds : SendMessage(r)
    \/ \E r \in SendIds : OnChunk(r)
    \/ \E r \in SendIds : StreamCompletes(r)
    \/ \E r \in SendIds : StreamFails(r)

StoreSpec == FetchInit /\ [][StoreNext]_vars


(***************************************************************************)
(* Concurrent requests of one user on one UTC day.  Of each request only   *)
(* the steps that read or write usage_logs are followed:                   *)
(* checkUserLimits counts the success rows, logUsage inserts one.          *)
(***************************************************************************)
notQuotaVars == <<relayVars, clientVars, uploadVars, responseBody, storeVars, authVars,
                  refreshVars>>

\* one more request than the limit allows
ConcurrentRequests == 1..(DailyRequestLimit + 1)

(***************************************************************************)
(* A request of the user arrives: handleStreamChatRequest is called        *)
(***************************************************************************)
RequestArrives ==
    /\ Len(concurrent) < DailyRequestLimit + 1
    /\ concurrent' = Append(concurrent, "checkUserLimits")
    /\ UNCHANGED <<notQuotaVars, dayLogs>>

(***************************************************************************)
(* await this.checkUserLimits(userId), lines 353-384: the success rows of  *)
(* today are counted and compared with the limit                           *)
(***************************************************************************)
CheckUserLimitsOf(r, dbOk) ==
    /\ r \in DOMAIN concurrent
    /\ concurrent[r] = "checkUserLimits"
    /\ concurrent' = [concurrent EXCEPT ![r] =
           IF ~dbOk THEN "unavailable"
           ELSE IF dayLogs >= DailyRequestLimit THEN "rejected" ELSE "passed"]
    /\ UNCHANGED <<notQuotaVars, dayLogs>>

(***************************************************************************)
(* Lines 95-178 of an admitted request: it reaches logUsage (the stream    *)
(* ended and the assistant message was saved) or it ends before.           *)
(***************************************************************************)
RequestStreams(r, ok) ==
    /\ r \in DOMAIN concurrent
    /\ concurrent[r] = "passed"
    /\ concurrent' = [concurrent EXCEPT ![r] = IF ok THEN "ended" ELSE "failed"]
    /\ UNCHANGED <<notQuotaVars, dayLogs>>

(***************************************************************************)
(* logUsage: the usage_logs insert with status 'success', lines 482-494    *)
(***************************************************************************)
LogUsageOf(r, dbOk) ==
    /\ r \in DOMAIN concurrent
    /\ concurrent[r] = "ended"
    /\ concurrent' = [concurrent EXCEPT ![r] = IF dbOk THEN "logged" ELSE "logFailed"]
    /\ dayLogs' = IF dbOk THEN dayLogs + 1 ELSE dayLogs
    /\ UNCHANGED notQuotaVars

QuotaNext ==
    \/ RequestArrives
    \/ \E r \in ConcurrentRequests, dbOk \in BOOLEAN : CheckUserLimitsOf(r, dbOk)
    \/ \E r \in ConcurrentRequests, ok \in BOOLEAN : RequestStreams(r, ok)
    \/ \E r \in ConcurrentRequests, dbOk \in BOOLEAN : LogUsageOf(r, dbOk)

QuotaSpec == ClientSpecInit /\ [][QuotaNext]_vars


(***************************************************************************)
(* The unauthorized event and the logout handler: auth-events.ts and       *)
(* AuthLogoutHandler.  listeners holds the one callback AuthLogoutHandler  *)
(* subscribes while it is mounted.                                         *)
(***************************************************************************)
\* 401 responses followed
MaxUnauthorized == 3

notAuthVars == <<relayVars, clientVars, uploadVars, responseBody, storeVars, quotaVars,
                 refreshVars>>

PendingSignOuts == {i \in DOMAIN signOuts : signOuts[i] = "pending"}

(***************************************************************************)
(* AuthLogoutHandler's effect runs: subscribeToUnauthorized(callback)      *)
(***************************************************************************)
Subscribe ==
    /\ ~listening
    /\ listening' = TRUE
    /\ UNCHANGED <<notAuthVars, logoutInProgress, signOuts, unauthorized>>

(***************************************************************************)
(* The effect's cleanup (unmount, or signOut / notification changed):      *)
(* unsubscribe removes the callback; a callback already running goes on.   *)
(***************************************************************************)
Unsubscribe ==
    /\ listening
    /\ listening' = FALSE
    /\ UNCHANGED <<notAuthVars, logoutInProgress, signOuts, unauthorized>>

(***************************************************************************)
(* A response with status 401 reaches apiClient, proxyApi or               *)
(* sendAIRequestStreaming: if (!isLogoutInProgress()) emitUnauthorized().  *)
(* emitUnauthorized returns when the flag is set; otherwise it calls the   *)
(* listeners.  The callback sets the flag, shows the warning and calls     *)
(* signOut(), all before emitUnauthorized returns; it then waits.          *)
(***************************************************************************)
Unauthorized401 ==
    /\ Len(unauthorized) < MaxUnauthorized
    /\ LET notified == ~logoutInProgress /\ listening
       IN  /\ unauthorized' = Append(unauthorized,
                   [notified |-> notified, pending |-> Cardinality(PendingSignOuts)])
           /\ logoutInProgress' = IF notified THEN TRUE ELSE logoutInProgress
           /\ signOuts' = IF notified THEN Append(signOuts, "pending") ELSE signOuts
    /\ UNCHANGED <<notAuthVars, listening>>

\* the flag reset after the await instead of in finally
SignOutSettlesWithoutFinally(i, ok) ==
    /\ i \in DOMAIN signOuts
    /\ signOuts[i] = "pending"
    /\ signOuts' = [signOuts EXCEPT ![i] = IF ok THEN "resolved" ELSE "rejected"]
    /\ logoutInProgress' = IF ok THEN FALSE ELSE logoutInProgress
    /\ UNCHANGED <<notAuthVars, listening, unauthorized>>

(***************************************************************************)
(* await signOut() settles: finally { setLogoutInProgress(false) }         *)
(***************************************************************************)
SignOutSettles(i, ok) ==
    /\ i \in DOMAIN signOuts
    /\ signOuts[i] = "pending"
    /\ signOuts' = [signOuts EXCEPT ![i] = IF ok THEN "resolved" ELSE "rejected"]
    /\ logoutInProgress' = FALSE
    /\ UNCHANGED <<notAuthVars, listening, unauthorized>>

AuthNext ==
    \/ Subscribe
    \/ Unsubscribe
    \/ Unauthorized401
    \/ \E i \in 1..MaxUnauthorized, ok \in BOOLEAN : SignOutSettles(i, ok)

AuthSpec == ClientSpecInit /\ [][AuthNext]_vars




(***************************************************************************)
(* What the claims speak of.                                               *)
(***************************************************************************)
IsTerminal(ev) == ev.type \in {"complete", "error"}

\* positions of the res.write calls of a terminal event
TerminalWrites == {i \in DOMAIN resWrites : IsTerminal(resWrites[i].ev)}

\* positions of the res.write calls of an event of the given type
WritesOfType(t) == {i \in DOMAIN resWrites : resWrites[i].ev.type = t}

\* positions of the events the response took and passed on to the caller
SentOfType(t) == {i \in WritesOfType(t) : resWrites[i].sent}

AssistantRows == {i \in DOMAIN messages : messages[i].role = "assistant"}

\* the reconciliation step has not been entered for the request
NoReconciliation ==
    /\ saveAttempts.assistant = 0
    /\ AssistantRows = {}
    /\ usageAttempts = 0
    /\ usageLogs = <<>>
    /\ addCostCalls = <<>>
    /\ accumulatedCost = costAtStart

\* the conversation id of the request: the given one, or the created one
RequestConversationId ==
    IF payload.conversationId = NULL THEN NewConversationId ELSE payload.conversationId

(***************************************************************************)
(* C1.  handleStreamChatRequest writes at most one terminal event          *)
(* (complete or error) to the response, whatever the order of upstream     *)
(* events and timer expiries.  Fails: after streamTimeout has written the  *)
(* timeout error and ended the response, the 'end' handler still writes    *)
(* its complete (or save error) event; the response rejects that write.    *)
(***************************************************************************)
C1_AtMostOneTerminalWrite == Cardinality(TerminalWrites) <= 1

(***************************************************************************)
(* C2.  Once a terminal event has been written, no content event is        *)
(* written afterwards.  Fails: the 'data' handler writes its content       *)
(* events without looking at res.writableEnded, so a chunk that arrives    *)
(* after streamTimeout has fired is written after the timeout error.       *)
(***************************************************************************)
C2_NoContentAfterTerminal ==
    \A i \in TerminalWrites : \A j \in WritesOfType("content") : j < i

(***************************************************************************)
(* C3.  At most one idle timer is pending, and a timer armed before a      *)
(* chunk was received never expires after that chunk (so a stream whose    *)
(* chunks all arrive in time gets no timeout error).  Fails: the timer     *)
(* armed by a 'data' event is never cleared, so after two chunks two       *)
(* timers are pending and the older one expires on a live stream.          *)
(***************************************************************************)
C3_TimerRearmed ==
    /\ Cardinality(timers) <= 1
    /\ \A i \in DOMAIN fired : fired[i].id = fired[i].chunks

(***************************************************************************)
(* C4.  After a transport failure of the upstream (a failed connection or  *)
(* a stream error after zero or more relayed chunks) the partial assistant *)
(* text is not saved, no usage log is written and addCost is not called.   *)
(***************************************************************************)
C4_TransportErrorSkipsReconciliation ==
    upstream \in {"errored", "failed"} => NoReconciliation

C4_Witness ==
    /\ upstream = "errored"
    /\ Len(fullContent) >= 2
    /\ Cardinality(SentOfType("content")) >= 2
    /\ Cardinality(SentOfType("error")) = 1

(***************************************************************************)
(* C5.  For a request whose stream ended cleanly and whose assistant       *)
(* message was saved, addCost is called exactly once with the request's    *)
(* cost when it is not null and not at all when it is null: the window     *)
(* grows by the cost.  Fails: logUsage calls addCost and the 'end' handler *)
(* calls it again with the cost logUsage returned.                         *)
(***************************************************************************)
C5_AddCostOnce ==
    (endPc = "done" /\ AssistantRows # {}) =>
        /\ addCostCalls = IF reqCost.null THEN <<>> ELSE <<reqCost.value>>
        /\ accumulatedCost = costAtStart + (IF reqCost.null THEN 0 ELSE reqCost.value)

(***************************************************************************)
(* C6.  If the save of the assistant message fails at end-of-stream, a     *)
(* caller that is still connected has received a terminal error event, no  *)
(* complete event is ever written, and the save is attempted only once.    *)
(***************************************************************************)
SaveFailed == endPc = "done" /\ assistantMessageId = NULL

C6_SaveFailureIsAnError ==
    SaveFailed =>
        /\ callerClosedAt = NULL => SentOfType("error") # {}
        /\ WritesOfType("complete") = {}
        /\ saveAttempts.assistant = 1
        /\ AssistantRows = {}

C6_Witness ==
    /\ SaveFailed
    /\ fired = <<>>
    /\ fullContent # <<>>
    /\ \E i \in SentOfType("error") : resWrites[i].ev = SaveError

(***************************************************************************)
(* C7.  If the assistant message is saved and only the insert into         *)
(* usage_logs fails (the stream ended cleanly and no timer expired that    *)
(* was still the latest one armed), the request ends with a complete event *)
(* carrying the conversation id and the message id, and no error event is  *)
(* written.  Fails: a timer armed by an earlier chunk (see C3) expires on  *)
(* the live stream and writes a timeout error.                             *)
(***************************************************************************)
OnlyUsageLogFailed ==
    /\ endPc = "done"
    /\ assistantMessageId # NULL
    /\ usageLogs = <<>>
    /\ \A i \in DOMAIN fired : fired[i].id < fired[i].chunks

C7_UsageLogFailureIsNotFatal ==
    OnlyUsageLogFailed =>
        /\ \E i \in WritesOfType("complete") :
              resWrites[i].ev = CompleteEvent(RequestConversationId, assistantMessageId)
        /\ WritesOfType("error") = {}

(***************************************************************************)
(* C8.  A complete event is written only after the upstream ended and the  *)
(* assistant message was saved; it carries the request's conversation id   *)
(* (the created one when the request had none) and the id that save gave.  *)
(***************************************************************************)
C8_CompleteAfterSave ==
    \A i \in WritesOfType("complete") :
        /\ upstream = "ended"
        /\ \E m \in AssistantRows :
              /\ messages[m].content = fullContent
              /\ messages[m].conversation_id = resWrites[i].ev.id
              /\ messages[m].id = resWrites[i].ev.message_id
        /\ resWrites[i].ev.id = RequestConversationId
        /\ payload.conversationId = NULL =>
              \E c \in DOMAIN conversations : conversations[c].id = resWrites[i].ev.id

C8_Witness ==
    /\ payload.conversationId = NULL
    /\ \E i \in SentOfType("complete") :
          resWrites[i].ev = CompleteEvent(NewConversationId, AssistantMessageId)

(***************************************************************************)
(* C9.  After a timeout error event was written while the upstream had     *)
(* not ended, the reconciliation step is skipped, even if the upstream     *)
(* ends cleanly later.  Fails: the 'end' handler runs whatever the state   *)
(* of the response, saves the message, logs the usage and adds the cost.   *)
(***************************************************************************)
TimedOutBeforeEnd ==
    \E i \in DOMAIN fired : fired[i].wrote /\ fired[i].phase \in {"connecting", "open"}

C9_TimeoutSkipsReconciliation == TimedOutBeforeEnd => NoReconciliation

(***************************************************************************)
(* C10.  If the caller disconnects while the request is connecting or      *)
(* streaming, no assistant message is saved, no usage log is written and   *)
(* addCost is not called, whatever the upstream does afterwards.  Fails:   *)
(* nothing listens for the caller's disconnect, and the 'end' handler      *)
(* reconciles as for a connected caller.                                   *)
(***************************************************************************)
C10_DisconnectSkipsReconciliation ==
    callerClosedAt \in {"connecting", "open"} => NoReconciliation


(***************************************************************************)
(* C11: a request rejected by the daily-limit check, by the hourly cost    *)
(* admission check or by request preparation is rejected before any        *)
(* upstream connection is opened, before any timeout timer is armed and    *)
(* without any event written to the response.                              *)
(***************************************************************************)
AdmissionRejections ==
    {"DAILY_LIMIT_EXCEEDED", "HOURLY_LIMIT_EXCEEDED", "CONFIGURATION_ERROR"}

C11_RejectedBeforeUpstream ==
    thrown \in AdmissionRejections =>
        /\ pc = "rejected"
        /\ upstream = "none"
        /\ timers = {} /\ fired = <<>>
        /\ resWrites = <<>> /\ ~writableEnded

\* request preparation rejected a request whose user message was saved
C11_Witness ==
    /\ thrown = "CONFIGURATION_ERROR"
    /\ saveAttempts.user = 1
    /\ upstream = "none" /\ timers = {}


(***************************************************************************)
(* C12: under fair scheduling of timers and of the store's callbacks,      *)
(* every request whose upstream connection attempt was started eventually  *)
(* has a terminal event written and its response ended, also when the      *)
(* upstream never answers, never sends a byte or stalls mid-stream.        *)
(***************************************************************************)
C12_EventuallyTerminated ==
    (upstream = "connecting") ~> (writableEnded /\ TerminalWrites # {})

\* the upstream stalled after a chunk and the timer armed by that chunk
\* wrote the timeout error and ended the response
C12_Witness ==
    /\ upstream = "open"
    /\ chunksReceived >= 1
    /\ writableEnded
    /\ \E i \in DOMAIN fired : fired[i].id = chunksReceived /\ fired[i].wrote
    /\ \E i \in TerminalWrites : resWrites[i].ev = TimeoutError


(***************************************************************************)
(* C13: for upstream chunks made of whole event lines, the content events  *)
(* written are, in order, the non-empty content deltas of the well-formed  *)
(* data lines received, and a line that does not parse causes no terminal  *)
(* event and loses no well-formed line of the same or of a later chunk.    *)
(* Fails: the try/catch of the 'data' handler encloses the loop over the   *)
(* lines, so the first line that does not parse ends the loop and the      *)
(* well-formed lines after it in the same chunk are never read.            *)
(***************************************************************************)
RECURSIVE ContentTexts(_)
ContentTexts(log) ==
    IF log = <<>> THEN <<>>
    ELSE (IF Head(log).ev.type = "content" THEN <<Head(log).ev.text>> ELSE <<>>)
         \o ContentTexts(Tail(log))

C13_ContentEventsAreDeltasReceived ==
    /\ ContentTexts(resWrites) = deltasReceived
    /\ (fired = <<>> /\ upstream = "open" => TerminalWrites = {})


(***************************************************************************)
(* Claims about prepareAIRequest: what the call was given and returned.    *)
(***************************************************************************)
\* the routing table has an entry for the requested model, flagged
RouteEntryFlagged ==
    /\ payload.model \in DOMAIN modelRoutingConfig
    /\ modelRoutingConfig[payload.model].useOpenRouter

\* aggregator routing applies: flagged entry and aggregator credential
AggregatorApplies == RouteEntryFlagged /\ openRouterApiKey # NULL

\* a direct-provider configuration with a credential exists for the model
DirectConfigUsable ==
    /\ payload.model \in DOMAIN aiProvidersConfig
    /\ aiProvidersConfig[payload.model].apiKey # NULL

\* the call returned a prepared request
Returned == prepared.called /\ prepared.result.ok

C15_ConfigurationError ==
    prepared.called =>
        /\ ~prepared.result.ok <=> (~AggregatorApplies /\ ~DirectConfigUsable)
        /\ prepared.result.ok => prepared.result.apiKey # NULL

\* flagged for the aggregator, whose credential is missing, and the direct
\* configuration of the model has no key: the call threw
C15_Witness ==
    /\ prepared.called
    /\ ~prepared.result.ok
    /\ RouteEntryFlagged
    /\ openRouterApiKey = NULL
    /\ payload.model \in DOMAIN aiProvidersConfig


(***************************************************************************)
(* The three schemas, recognised on a formatted message.  A message        *)
(* without attachments is the plain string in Schema A and in Schema B.    *)
(***************************************************************************)
\* Schema A: the message's text part first, then image_url, file and text parts
LooksLikeSchemaA(msg, content) ==
    IF msg.attachments = <<>> THEN content = StringContent(msg.content)
    ELSE /\ content.isArray
         /\ content.parts # <<>>
         /\ content.parts[1] = TextPart(msg.content)
         /\ \A i \in DOMAIN content.parts :
                content.parts[i].type \in {"text", "image_url", "file"}

\* Schema B: image, document and text blocks, the message's text block last
LooksLikeSchemaB(msg, content) ==
    IF msg.attachments = <<>> THEN content = StringContent(msg.content)
    ELSE /\ content.isArray
         /\ content.parts # <<>>
         /\ content.parts[Len(content.parts)] = TextPart(msg.content)
         /\ \A i \in DOMAIN content.parts :
                content.parts[i].type \in {"text", "image", "document"}

\* Schema C: parts that are {text} or {inline_data}, without a type field
LooksLikeSchemaC(parts) ==
    /\ parts # <<>>
    /\ \A i \in DOMAIN parts : DOMAIN parts[i] \in {{"text"}, {"inline_data"}}

\* the wire model id begins with "anthropic/"
WireIdIsAnthropic(id) == Len(id) >= 2 /\ id[1] = "anthropic" /\ id[2] = "/"

(***************************************************************************)
(* C16: on the aggregator route every message is formatted with Schema B   *)
(* if the wire model id begins with "anthropic/" and with Schema A         *)
(* otherwise; on a direct route the gemini provider gets Schema C and      *)
(* every other provider Schema A; one request never mixes schemas.         *)
(***************************************************************************)
C16_SchemaSelection ==
    Returned =>
        LET body == prepared.result.requestBody
            msgs == payload.messages
        IN  IF prepared.result.provider = "gemini"
            THEN /\ DOMAIN body \cap {"messages", "contents"} = {"contents"}
                 /\ \A i \in DOMAIN body.contents : LooksLikeSchemaC(body.contents[i].parts)
            ELSE /\ DOMAIN body \cap {"messages", "contents"} = {"messages"}
                 /\ Len(body.messages) = Len(msgs)
                 /\ \A i \in DOMAIN msgs :
                        IF /\ prepared.result.provider = "openrouter"
                           /\ WireIdIsAnthropic(body.model)
                        THEN /\ LooksLikeSchemaB(msgs[i], body.messages[i].content)
                             /\ msgs[i].attachments # <<>> =>
                                    ~LooksLikeSchemaA(msgs[i], body.messages[i].content)
                        ELSE /\ LooksLikeSchemaA(msgs[i], body.messages[i].content)
                             /\ msgs[i].attachments # <<>> =>
                                    ~LooksLikeSchemaB(msgs[i], body.messages[i].content)

\* an anthropic wire id on the aggregator route, and a request with two
\* messages that carry attachments
C16_Witness ==
    /\ Returned
    /\ prepared.result.provider = "openrouter"
    /\ WireIdIsAnthropic(prepared.result.requestBody.model)
    /\ payload.messages = MixedChat
    /\ prepared.result.requestBody.messages[1].content.isArray
    /\ prepared.result.requestBody.messages[3].content.isArray


(***************************************************************************)
(* C17: on a direct gemini route the contents of the body are exactly the  *)
(* user and assistant messages of the request, in their order, with the    *)
(* role "model" for assistant and "user" for user; system messages are     *)
(* dropped and nothing else is dropped or added.                           *)
(***************************************************************************)
\* the messages of the request that are not system messages, in order
ConversationTurns == SelectSeq(payload.messages, LAMBDA m : m.role # "system")

C17_GeminiContents ==
    (Returned /\ prepared.result.provider = "gemini") =>
        LET contents == prepared.result.requestBody.contents
        IN  /\ Len(contents) = Len(ConversationTurns)
            /\ \A i \in DOMAIN contents :
                   /\ ConversationTurns[i].role \in {"user", "assistant"}
                   /\ contents[i].role =
                          IF ConversationTurns[i].role = "assistant" THEN "model" ELSE "user"
                   /\ Len(contents[i].parts) = Len(ConversationTurns[i].attachments) + 1
                   /\ contents[i].parts[Len(contents[i].parts)] =
                          [text |-> ConversationTurns[i].content]

\* a request that opens with a system message, sent to gemini
C17_Witness ==
    /\ Returned
    /\ prepared.result.provider = "gemini"
    /\ payload.messages = PlainChat
    /\ Len(prepared.result.requestBody.contents) = Len(PlainChat) - 1
    /\ prepared.result.requestBody.contents[1].role = "user"
    /\ prepared.result.requestBody.contents[2].role = "model"


(***************************************************************************)
(* C18: a sampling parameter present in the request is placed by provider: *)
(* for gemini both temperature and top_p go under the generation-config    *)
(* object and not at the top level of the body, for every other provider   *)
(* both are top-level fields; an absent or null parameter adds no field.   *)
(* Fails: the top_p step has no provider case and always sets the          *)
(* top-level field, so a gemini body gets top_p next to contents.          *)
(***************************************************************************)
\* the fields of the body's generation-config object, if any
GenerationConfigFields ==
    IF "generationConfig" \in DOMAIN prepared.result.requestBody
    THEN DOMAIN prepared.result.requestBody["generationConfig"]
    ELSE {}

\* the sampling parameters the request gives
SamplingGiven ==
    {k \in {"temperature", "top_p"} :
        (IF k = "temperature" THEN payload.temperature ELSE payload.top_p) # NULL}

C18_SamplingPlacement ==
    Returned =>
        LET top == DOMAIN prepared.result.requestBody \cap {"temperature", "top_p"}
        IN  IF prepared.result.provider = "gemini"
            THEN top = {} /\ GenerationConfigFields = SamplingGiven
            ELSE top = SamplingGiven /\ GenerationConfigFields = {}


(***************************************************************************)
(* Schema A and Schema B as used by a returned request.                    *)
(***************************************************************************)
SchemaBUsed ==
    /\ Returned
    /\ prepared.result.provider = "openrouter"
    /\ WireIdIsAnthropic(prepared.result.requestBody.model)

SchemaAUsed ==
    /\ Returned
    /\ prepared.result.provider # "gemini"
    /\ ~SchemaBUsed

\* the messages of the request that carry attachments
WithAttachments == {i \in DOMAIN payload.messages : payload.messages[i].attachments # <<>>}

\* the parts of the i-th formatted message
PartsOf(i) == prepared.result.requestBody.messages[i].content.parts

\* the delimited block of a markdown attachment, as text
DelimitedBlock(att) == <<"\n\n--- File: ", att.name, " ---\n", att.data, "\n---">>

(***************************************************************************)
(* C19 as stated: in Schema A a markdown attachment is appended to the     *)
(* message's own text and gives no part of its own, so a formatted message *)
(* with attachments has one text part plus one part per image or pdf       *)
(* attachment.  Not what buildOpenAIContent does: it pushes a text part    *)
(* for each markdown attachment.                                           *)
(***************************************************************************)
C19_MarkdownAppendedToText ==
    SchemaAUsed =>
        \A i \in WithAttachments :
            LET atts == payload.messages[i].attachments
            IN  /\ Len(PartsOf(i)) =
                       1 + Cardinality({j \in DOMAIN atts : atts[j].type \in {"image", "pdf"}})
                /\ \A k \in 2..Len(PartsOf(i)) : PartsOf(i)[k].type # "text"

(***************************************************************************)
(* C19, amended: in Schema A a formatted message with attachments has the  *)
(* message's own text, unchanged, as first part, followed by one part per  *)
(* attachment in the attachments' order; a markdown attachment gives a     *)
(* text part of its own that holds the delimited block.                    *)
(***************************************************************************)
C19_MarkdownIsOwnTextPart ==
    SchemaAUsed =>
        \A i \in WithAttachments :
            LET atts == payload.messages[i].attachments
            IN  /\ Len(PartsOf(i)) = 1 + Len(atts)
                /\ PartsOf(i)[1] = TextPart(payload.messages[i].content)
                /\ \A j \in DOMAIN atts :
                       CASE atts[j].type = "markdown" ->
                                PartsOf(i)[j + 1] = TextPart(DelimitedBlock(atts[j]))
                         [] atts[j].type = "image" -> PartsOf(i)[j + 1].type = "image_url"
                         [] atts[j].type = "pdf" -> PartsOf(i)[j + 1].type = "file"

\* Schema A on a message with an image, a markdown and a pdf attachment and
\* on a message with a markdown attachment alone
C19_Witness ==
    /\ SchemaAUsed
    /\ payload.messages = MixedChat
    /\ Len(PartsOf(1)) = 4
    /\ PartsOf(3) = <<TextPart(<<"q", "2">>), TextPart(DelimitedBlock(Markdown))>>

(***************************************************************************)
(* C20: a Schema B message with at least one attachment has one part per   *)
(* attachment, in the attachments' order (an image as a base64 image block *)
(* with the declared MIME type, a pdf as a base64 document block with the  *)
(* MIME type "application/pdf", a markdown file as a delimited text        *)
(* block), followed by exactly one text block with the message's text, as  *)
(* last part.                                                              *)
(***************************************************************************)
C20_ClaudeBlocks ==
    SchemaBUsed =>
        \A i \in WithAttachments :
            LET atts == payload.messages[i].attachments
            IN  /\ Len(PartsOf(i)) = Len(atts) + 1
                /\ PartsOf(i)[Len(atts) + 1] = TextPart(payload.messages[i].content)
                /\ \A j \in DOMAIN atts :
                       CASE atts[j].type = "image" ->
                                PartsOf(i)[j] =
                                    [type |-> "image",
                                     source |-> [type |-> "base64",
                                                 media_type |-> atts[j].mime_type,
                                                 data |-> atts[j].data]]
                         [] atts[j].type = "pdf" ->
                                PartsOf(i)[j] =
                                    [type |-> "document",
                                     source |-> [type |-> "base64",
                                                 media_type |-> "application/pdf",
                                                 data |-> atts[j].data]]
                         [] atts[j].type = "markdown" ->
                                PartsOf(i)[j] = TextPart(DelimitedBlock(atts[j]))

\* Schema B on a message whose pdf declares another MIME type
C20_Witness ==
    /\ SchemaBUsed
    /\ payload.messages = PdfFirstChat
    /\ Len(PartsOf(2)) = 4
    /\ PartsOf(2)[1].type = "document"
    /\ PartsOf(2)[1].source.media_type # Pdf.mime_type
    /\ PartsOf(2)[4].type = "text"


(***************************************************************************)
(* C21: in Schema C the parts of a message are never empty: one part per   *)
(* attachment, in the attachments' order, then the text part with the      *)
(* message's content as last element; without attachments the parts are    *)
(* exactly that one text part.                                             *)
(***************************************************************************)
SchemaCUsed == Returned /\ prepared.result.provider = "gemini"

\* the parts of the i-th entry of the gemini contents
GeminiPartsOf(i) == prepared.result.requestBody.contents[i].parts

C21_GeminiParts ==
    SchemaCUsed =>
        \A i \in DOMAIN ConversationTurns :
            LET atts == ConversationTurns[i].attachments
                text == [text |-> ConversationTurns[i].content]
            IN  /\ GeminiPartsOf(i) # <<>>
                /\ GeminiPartsOf(i)[Len(GeminiPartsOf(i))] = text
                /\ atts = <<>> => GeminiPartsOf(i) = <<text>>
                /\ Len(GeminiPartsOf(i)) = Len(atts) + 1
                /\ \A j \in DOMAIN atts :
                       IF atts[j].type = "markdown"
                       THEN GeminiPartsOf(i)[j] = [text |-> DelimitedBlock(atts[j])]
                       ELSE /\ DOMAIN GeminiPartsOf(i)[j] = {"inline_data"}
                            /\ GeminiPartsOf(i)[j].inline_data.data = atts[j].data

\* gemini contents with a message of three attachments and one of none
C21_Witness ==
    /\ SchemaCUsed
    /\ payload.messages = MixedChat
    /\ Len(GeminiPartsOf(1)) = 4
    /\ GeminiPartsOf(2) = << [text |-> <<"a", "1">>] >>


(***************************************************************************)
(* C22: a message without attachments is formatted by Schema A and by      *)
(* Schema B as the message's text, a plain string and never an array, on   *)
(* the direct and on the aggregator route.                                 *)
(***************************************************************************)
WithoutAttachments ==
    {i \in DOMAIN payload.messages : payload.messages[i].attachments = <<>>}

C22_PlainStringWithoutAttachments ==
    (SchemaAUsed \/ SchemaBUsed) =>
        \A i \in WithoutAttachments :
            /\ ~prepared.result.requestBody.messages[i].content.isArray
            /\ prepared.result.requestBody.messages[i].content.parts = <<>>
            /\ prepared.result.requestBody.messages[i].content.text =
                   payload.messages[i].content

\* Schema B on the aggregator route, a request of messages without attachments
C22_Witness ==
    /\ SchemaBUsed
    /\ payload.messages = PlainChat
    /\ WithoutAttachments = DOMAIN PlainChat
    /\ ~prepared.result.requestBody.messages[2].content.isArray


(***************************************************************************)
(* C23: the record handed to the store for the user message holds, per     *)
(* attachment, only type, name, mime_type and size; no save of the         *)
(* request writes an attachment's payload (data) to the store.             *)
(***************************************************************************)
\* the last message of the request: the one saved as the user message
UserMessage == payload.messages[Len(payload.messages)]

C23_AttachmentPayloadNotStored ==
    \A m \in DOMAIN messages :
        /\ \A a \in DOMAIN messages[m].attachments :
               DOMAIN messages[m].attachments[a] = {"type", "name", "mime_type", "size"}
        /\ messages[m].role = "user" =>
               /\ Len(messages[m].attachments) = Len(UserMessage.attachments)
               /\ \A a \in DOMAIN messages[m].attachments :
                      /\ messages[m].attachments[a].type = UserMessage.attachments[a].type
                      /\ messages[m].attachments[a].name = UserMessage.attachments[a].name
                      /\ messages[m].attachments[a].size = UserMessage.attachments[a].size

\* the user message with three attachments and the assistant message are saved
C23_Witness ==
    /\ Len(messages) = 2
    /\ Len(UserMessage.attachments) = 3
    /\ Len(messages[1].attachments) = 3
    /\ messages[2].role = "assistant"


(***************************************************************************)
(* Conversations created for the request.                                  *)
(***************************************************************************)
\* the user-role messages of the request, in order
UserTurns == SelectSeq(payload.messages, LAMBDA m : m.role = "user")

\* text is the given message's content cut to at most 50 characters
IsTruncationOf(text, content) ==
    /\ Len(text) <= 50
    /\ Len(text) = (IF Len(content) <= 50 THEN Len(content) ELSE 50)
    /\ \A k \in DOMAIN text : text[k] = content[k]

\* the request went past the creation of its conversation
PastCreation == pc \notin {"checkUserLimits", "createConversation"} /\ conversationId # NULL

\* one conversation for a request without conversationId, none otherwise
OneConversationWhenNoneGiven ==
    /\ Len(conversations) <= 1
    /\ payload.conversationId # NULL => conversations = <<>>
    /\ (payload.conversationId = NULL /\ PastCreation) => Len(conversations) = 1

(***************************************************************************)
(* C24 as stated: a request without conversationId gets exactly one        *)
(* conversation, titled with the first user-role message of the request    *)
(* cut to at most 50 characters; with a conversationId none is created.    *)
(* Not what createConversation does: it takes the last user-role message.  *)
(***************************************************************************)
C24_TitleFromFirstUserMessage ==
    /\ OneConversationWhenNoneGiven
    /\ \A c \in DOMAIN conversations :
           IsTruncationOf(conversations[c].title, UserTurns[1].content)

(***************************************************************************)
(* C24, amended: a request without conversationId that gets past the       *)
(* creation step has exactly one conversation created for it, titled with  *)
(* the last user-role message of the request cut to at most 50 characters; *)
(* with a conversationId no conversation is created.                       *)
(***************************************************************************)
C24_TitleFromLastUserMessage ==
    /\ OneConversationWhenNoneGiven
    /\ \A c \in DOMAIN conversations :
           IsTruncationOf(conversations[c].title, UserTurns[Len(UserTurns)].content)

\* a conversation titled with the 50 first characters of a longer last message
C24_Witness ==
    /\ payload.messages = LongLastChat
    /\ Len(conversations) = 1
    /\ Len(conversations[1].title) = 50
    /\ Len(UserTurns[Len(UserTurns)].content) > 50


(***************************************************************************)
(* C25: the cost reconciled for a request is computed from the pricing     *)
(* entry keyed by the wire model id that prepareAIRequest resolved for     *)
(* that request, and is null only when the pricing cache has no entry for  *)
(* that id; also when the routing table is refreshed between the start of  *)
(* the request and end-of-stream, and when the routing entry has no        *)
(* aggregator model id.                                                    *)
(* Fails: calculateCost does not use the resolved id; it reads the routing *)
(* table again by the requested model at end-of-stream and prices only an  *)
(* entry whose openRouterModelId is set.                                   *)
(***************************************************************************)
\* the model id in the body that was sent upstream
WireModelId == prepared.result.requestBody.model

\* the pricing cache the service may hold
PricingSnapshots == {BuildPricingCache(PricingModels), BuildPricingCache(RefreshedPricingModels)}

\* the cost of the request's completion under a pricing table, by wire id
CostByWireId(table) ==
    IF WireModelId \in DOMAIN table
    THEN Cost(RoundToMicro(CompletionTokens(fullContent) * table[WireModelId].completion))
    ELSE NullCost

C25_CostByResolvedWireId ==
    usageAttempts >= 1 => \E table \in PricingSnapshots : reqCost = CostByWireId(table)

(***************************************************************************)
(* C26: a refresh of the routing table or of the pricing cache builds the  *)
(* whole new table and installs it in one step: whatever a request step    *)
(* reads is the complete old table or the complete new one, never a        *)
(* partly filled or mixed one.                                             *)
(***************************************************************************)
IsRoutingSnapshot(table, rows) ==
    /\ DOMAIN table = {rows[i].model_id : i \in DOMAIN rows}
    /\ \A i \in DOMAIN rows :
           /\ table[rows[i].model_id].useOpenRouter = rows[i].use_openrouter
           /\ table[rows[i].model_id].openRouterModelId = rows[i].openrouter_model_id

IsPricingSnapshot(table, models) ==
    /\ DOMAIN table = {models[i].id : i \in {j \in DOMAIN models : models[j].hasPricing}}
    /\ \A i \in DOMAIN models :
           models[i].hasPricing =>
               /\ table[models[i].id].prompt = models[i].prompt
               /\ table[models[i].id].completion = models[i].completion

C26_TablesAreSnapshots ==
    /\ \/ IsRoutingSnapshot(modelRoutingConfig, RoutingRows)
       \/ IsRoutingSnapshot(modelRoutingConfig, RefreshedRoutingRows)
    /\ \/ IsPricingSnapshot(pricingCache, PricingModels)
       \/ IsPricingSnapshot(pricingCache, RefreshedPricingModels)

\* both tables were refreshed while the upstream stream of the request was
\* open, after the request was prepared under the old routing table
C26_Witness ==
    /\ upstream = "open"
    /\ prepared.called
    /\ WireModelId = <<"anthropic", "/", "claude">>
    /\ IsRoutingSnapshot(modelRoutingConfig, RefreshedRoutingRows)
    /\ IsPricingSnapshot(pricingCache, RefreshedPricingModels)

(***************************************************************************)
(* C29: the conversation is created and the user message is saved only in  *)
(* the reconciliation step after the upstream end-of-stream; a request     *)
(* that ended with an hourly-cost rejection, a configuration error, a      *)
(* connection failure, a mid-stream transport error or a timeout made no   *)
(* persistence call at all.  Fails: handleStreamChatRequest creates the    *)
(* conversation and saves the user message before the hourly cost check,   *)
(* before prepareAIRequest and before the upstream connection is opened.   *)
(***************************************************************************)
EndedInFailure ==
    \/ thrown \in {"HOURLY_LIMIT_EXCEEDED", "CONFIGURATION_ERROR"}
    \/ upstream \in {"failed", "errored"}
    \/ TimedOutBeforeEnd

NoPersistenceCall ==
    /\ conversations = <<>>
    /\ messages = <<>>
    /\ saveAttempts.user = 0 /\ saveAttempts.assistant = 0
    /\ usageAttempts = 0

C29_PersistenceOnlyAfterEndOfStream ==
    /\ (conversations # <<>> \/ saveAttempts.user > 0) => upstream = "ended"
    /\ EndedInFailure => NoPersistenceCall

(***************************************************************************)
(* C27: the client stream reader ignores any event whose type is not       *)
(* content, complete or error: such an event invokes no callback, does not *)
(* change the accumulated content or the result, and does not stop the     *)
(* reading of later events.  Stated on the lines read so far: the calls,   *)
(* the content and the message id are those of the stream without its      *)
(* events of other types, and only an error event ends the reading with a  *)
(* stream error.                                                           *)
(***************************************************************************)
RECURSIVE Flatten(_)
Flatten(seqs) == IF seqs = <<>> THEN <<>> ELSE Head(seqs) \o Flatten(Tail(seqs))

LinesRead == Flatten(readsDone)

IsEvent(line) == line.data /\ line.json

IsEventOfType(line, t) == IsEvent(line) /\ line.type = t

IsUnknownEvent(line) ==
    IsEvent(line) /\ line.type \notin {"content", "complete", "error"}

WithoutUnknownEvents(lines) == SelectSeq(lines, LAMBDA l : ~IsUnknownEvent(l))

ErrorPositions(lines) == {i \in DOMAIN lines : IsEventOfType(lines[i], "error")}

\* the lines before the first error event
UntilError(lines) ==
    IF ErrorPositions(lines) = {} THEN lines
    ELSE SubSeq(lines, 1, Min(ErrorPositions(lines)) - 1)

ContentsOf(lines) ==
    LET evs == SelectSeq(lines, LAMBDA l : IsEventOfType(l, "content"))
    IN  [i \in DOMAIN evs |-> evs[i].content]

LastCompleteId(lines) ==
    LET evs == SelectSeq(lines, LAMBDA l : IsEventOfType(l, "complete"))
    IN  IF evs = <<>> THEN "" ELSE evs[Len(evs)].id

CallsOf(name) == SelectSeq(callbacks, LAMBDA c : c.cb = name)

ChunksDelivered == [i \in DOMAIN CallsOf("onChunk") |-> CallsOf("onChunk")[i].content[1]]

TerminalCalls == SelectSeq(callbacks, LAMBDA c : c.cb \in {"onComplete", "onError"})

C27_UnknownEventsIgnored ==
    LET defined == UntilError(WithoutUnknownEvents(LinesRead))
    IN  /\ ChunksDelivered = ContentsOf(defined)
        /\ clientFullContent = ContentsOf(defined)
        /\ messageId = LastCompleteId(defined)
        /\ Len(callbacks) = Len(ContentsOf(defined)) + Len(TerminalCalls)
        /\ \A i \in DOMAIN callbacks :
              callbacks[i].cb = "onComplete" =>
                  /\ callbacks[i].content = ContentsOf(defined)
                  /\ callbacks[i].id = LastCompleteId(defined)
        /\ (\E i \in DOMAIN callbacks : callbacks[i].code = "STREAM_ERROR")
              => ErrorPositions(LinesRead) # {}
        /\ (clientPc = "returned" /\ ErrorPositions(LinesRead) = {})
              => callbacks[Len(callbacks)].code # "STREAM_ERROR"

\* events of another type were read before and between the content and
\* complete events of a stream that was read to its end
C27_Witness ==
    /\ readsDone = << <<ContentLine("a"), UnknownLine, CompleteLine("msg-1")>>,
                      <<UnknownLine, ContentLine("b")>> >>
    /\ callbacks = << OnChunkCall("a"), OnChunkCall("b"),
                      OnCompleteCall(<<"a", "b">>, "msg-1") >>

(***************************************************************************)
(* C28: every attachment list the client can accumulate through            *)
(* processFiles for one message satisfies the server validation contract:  *)
(* at most 5 attachments per message, each no larger than the byte ceiling *)
(* of the request validation schema.  Fails: processFiles admits up to     *)
(* MAX_FILES = 10 attachments of up to MAX_FILE_SIZE = 30MB each, the      *)
(* schema 5 attachments of 20MB.                                           *)
(***************************************************************************)
SatisfiesValidation(atts) ==
    /\ Len(atts) <= MaxAttachmentsPerMessage
    /\ \A i \in DOMAIN atts :
          /\ atts[i].type \in {"image", "pdf", "markdown"}
          /\ atts[i].size > 0
          /\ atts[i].size <= MaxAttachmentSize

C28_AttachmentsSatisfyValidation ==
    /\ SatisfiesValidation(pendingAttachments)
    /\ sentMessage.sent => SatisfiesValidation(sentMessage.attachments)

(***************************************************************************)
(* C30: for any server response (non-OK status, missing body, any sequence *)
(* of events, read failure) sendAIRequestStreaming invokes exactly one of  *)
(* onComplete and onError, exactly once, and never invokes onChunk after   *)
(* that; once an error event has been read no later content event (of the *)
(* same read or of a later one) is delivered and onComplete is not called. *)
(***************************************************************************)
IsTerminalCall(c) == c.cb \in {"onComplete", "onError"}

C30_ExactlyOneTerminalCallback ==
    /\ Len(TerminalCalls) <= 1
    /\ clientPc = "returned" <=> Len(TerminalCalls) = 1
    /\ \A i \in DOMAIN callbacks : IsTerminalCall(callbacks[i]) => i = Len(callbacks)
    /\ ErrorPositions(LinesRead) # {} =>
          /\ ChunksDelivered = ContentsOf(UntilError(LinesRead))
          /\ CallsOf("onComplete") = <<>>
          /\ clientPc = "returned"
          /\ callbacks[Len(callbacks)] = OnErrorCall("STREAM_ERROR")

\* an error event arrived in the second read, between two content events
C30_Witness ==
    /\ readsDone = << <<ContentLine("b"), CompleteLine("msg-1")>>,
                      <<ContentLine("a"), ErrorLine, ContentLine("b")>> >>
    /\ callbacks = << OnChunkCall("b"), OnChunkCall("a"), OnErrorCall("STREAM_ERROR") >>
    /\ clientPc = "returned"

(***************************************************************************)
(* C31: the client reports success only for a completed stream: onComplete *)
(* is invoked only if a complete event was received, and a response body   *)
(* that ends without any terminal event is reported through onError.       *)
(* Fails: when reader.read() returns done and no error event was read,     *)
(* actualOnComplete is called whatever was read, with messageId ''.        *)
(***************************************************************************)
CompletePositions(lines) == {i \in DOMAIN lines : IsEventOfType(lines[i], "complete")}

C31_SuccessOnlyAfterCompleteEvent ==
    /\ CallsOf("onComplete") # <<>> => CompletePositions(LinesRead) # {}
    /\ (clientPc = "returned" /\ CompletePositions(LinesRead) = {})
          => callbacks[Len(callbacks)].cb = "onError"

(***************************************************************************)
(* C32: the client's result does not depend on how the response text is    *)
(* split into reads: for every split, also in the middle of an event line, *)
(* the strings passed to onChunk are the content fields of the content     *)
(* events the server sent, in order, and a complete event sent by the      *)
(* server is recognised.  (Every content field of ServerStreams is one     *)
(* character, so equal sequences are equal concatenations.)  Fails: the    *)
(* loop splits each chunk on its own and keeps nothing between reads, so   *)
(* an event line cut by a read is lost in two unusable pieces.             *)
(***************************************************************************)
EventField(event, key) == FieldOf(event, key)

SentOfEventType(t) == SelectSeq(responseBody.sent, LAMBDA e : EventField(e, "type") = t)

SentContents == [i \in DOMAIN SentOfEventType("content") |->
                     EventField(SentOfEventType("content")[i], "content")]

BodyReadToEnd ==
    /\ responseBody.sent # <<>>
    /\ responseBody.unread = <<>>
    /\ clientPc = "returned"

C32_ResultIndependentOfSplit ==
    BodyReadToEnd =>
        /\ ChunksDelivered = SentContents
        /\ SentOfEventType("complete") # <<>> =>
              /\ CallsOf("onComplete") # <<>>
              /\ CallsOf("onComplete")[1].id = EventField(SentOfEventType("complete")[1], "id")

(***************************************************************************)
(* C34: after any interleaving of setActiveConversation calls and          *)
(* fetchMessages completions, once no fetch is in flight the store's       *)
(* messages are those of the current activeConversation, or empty when it  *)
(* is null; a fetch started for a conversation that is no longer active    *)
(* never overwrites the displayed messages.  Read at its weakest: with no  *)
(* fetch in flight every message shown belongs to the active conversation  *)
(* (none may be shown after a failed fetch).  Fails: fetchMessages sets    *)
(* the result without comparing its conversation with the active one.      *)
(***************************************************************************)
ShownConversations == {storeMessages[i].conversation_id : i \in DOMAIN storeMessages}

C34_MessagesOfActiveConversation ==
    fetches = <<>> =>
        /\ activeConversation = NULL => storeMessages = <<>>
        /\ ShownConversations \subseteq {activeConversation}

(***************************************************************************)
(* C33: every chunk streamed for a sendMessage call is appended only to    *)
(* the optimistic assistant message created by that call, under any        *)
(* interleaving with setActiveConversation, fetchMessages completions or a *)
(* second sendMessage call.  Fails: onChunk appends to whatever message is *)
(* last in the store if its role is assistant.                             *)
(***************************************************************************)
C33_ChunksOnlyInOwnMessage ==
    \A i \in DOMAIN storeMessages :
        \A j \in DOMAIN storeMessages[i].content :
            LET piece == storeMessages[i].content[j]
            IN  piece.call # 0 => storeMessages[i].id = OptimisticAssistantId(piece.call)

(***************************************************************************)
(* C35: if the streaming request of a sendMessage call fails, then when    *)
(* sendMessage returns exactly the two optimistic messages created by that *)
(* call have been removed from the store, every other message is           *)
(* unchanged, loading is false, and the error handler has been invoked     *)
(* exactly once.  Stated on the step in which the call fails and returns,  *)
(* and on the count of handler calls in every state.                       *)
(***************************************************************************)
OwnMessageIds(r) == {OptimisticUserId(r), OptimisticAssistantId(r)}

FailsNow(r) == sends[r].pc = "streaming" /\ sends'[r].pc = "failed"

HandlerCallsOf(r) == Len(SelectSeq(errorHandlerCalls, LAMBDA c : c = r))

OthersKept(r) ==
    storeMessages' = SelectSeq(storeMessages, LAMBDA m : m.id \notin OwnMessageIds(r))

C35_FailureRemovesOwnOptimisticMessages ==
    /\ [][\A r \in SendIds : FailsNow(r) =>
              /\ OthersKept(r)
              /\ ~loading'
              /\ errorHandlerCalls' = Append(errorHandlerCalls, r)]_vars
    /\ [](\A r \in SendIds :
              HandlerCallsOf(r) = IF sends[r].pc = "failed" THEN 1 ELSE 0)

\* the first call failed while the second was streaming: the store holds
\* the second call's two optimistic messages and none of the first call
C35_Witness ==
    /\ sends[1].pc = "failed"
    /\ sends[2].pc = "streaming"
    /\ errorHandlerCalls = <<1>>
    /\ ~loading
    /\ Len(storeMessages) = 2
    /\ storeMessages[1].id = OptimisticUserId(2)
    /\ storeMessages[2].id = OptimisticAssistantId(2)

(***************************************************************************)
(* C36: for every user and UTC day, the number of the user's requests that *)
(* pass the daily-limit check and end with a success usage-log record      *)
(* never exceeds the user's daily request limit, for any interleaving of   *)
(* the user's concurrent requests.  Fails: the rows are counted when a     *)
(* request starts and inserted when it ends; requests that start before    *)
(* any of them ended all pass.                                             *)
(***************************************************************************)
LoggedRequests == {r \in DOMAIN concurrent : concurrent[r] = "logged"}

C36_DailyLimitNeverExceeded ==
    /\ Cardinality(LoggedRequests) <= DailyRequestLimit
    /\ dayLogs <= DailyRequestLimit

(***************************************************************************)
(* C37: a failed refresh leaves shared state unchanged: when loading the   *)
(* routing configuration or fetching the pricing feed fails, the routing   *)
(* table, the pricing cache and the pricing timestamp stay as they were,   *)
(* and requests keep resolving against them.  After a refresh that failed, *)
(* and until the next refresh, the three are what that refresh found, at   *)
(* every step of the request that runs meanwhile.                          *)
(***************************************************************************)
C37_FailedRefreshLeavesTables ==
    failedRefresh # <<>> => failedRefresh[1] = TablesSnapshot

\* a refresh failed and the request was priced and logged afterwards or before
C37_Witness ==
    /\ failedRefresh # <<>>
    /\ pricingCacheTimestamp > 0
    /\ usageLogs # <<>>

(***************************************************************************)
(* C38: signOut is never invoked while another signOut triggered by an     *)
(* unauthorized event is still pending: from the moment the logout handler *)
(* starts until its signOut settles, further 401 responses notify no       *)
(* listener; and the logout-in-progress flag is false again once signOut   *)
(* has settled, whether it resolved or rejected.                           *)
(***************************************************************************)
C38_NoOverlappingSignOut ==
    /\ Cardinality(PendingSignOuts) <= 1
    /\ \A k \in DOMAIN unauthorized :
           unauthorized[k].pending > 0 => ~unauthorized[k].notified
    /\ logoutInProgress <=> PendingSignOuts # {}

\* a 401 arrived while a signOut was pending, that signOut rejected, and a
\* later 401 started the next signOut
C38_Witness ==
    /\ Len(signOuts) = 2
    /\ signOuts[1] = "rejected"
    /\ \E k \in DOMAIN unauthorized : unauthorized[k].pending > 0
    /\ ~logoutInProgress

(***************************************************************************)
(* C39: the pending attachment list of the chat input never holds more     *)
(* than MAX_FILES entries and never loses an already accepted attachment,  *)
(* including when a second file selection or drop starts while the file    *)
(* reads of a first one are still in progress.  Fails both ways: a drop    *)
(* is cut to the room left when it started and appended to the list as it  *)
(* is when its reads settle; a selection writes back the list of the       *)
(* render in which it started.                                             *)
(***************************************************************************)
\* the step in which the file reads of a selection or drop settle
ReadsSettleNow == Len(fileReads') < Len(fileReads)

IsPrefix(short, long) ==
    /\ Len(short) <= Len(long)
    /\ SubSeq(long, 1, Len(short)) = short

C39_PendingListBoundedAndKept ==
    /\ [](Len(pendingAttachments) <= MAX_FILES)
    /\ [][ReadsSettleNow => IsPrefix(pendingAttachments, pendingAttachments')]_vars

=============================================================================
